---- MODULE Spec2Model ----
(***************************************************************************)
(* kaput-not: a Kubernetes controller that projects the pod CIDRs of       *)
(* cluster nodes onto Netmaker egress rules.                               *)
(*                                                                         *)
(* The model covers the reconciler (pkg/reconciler), the TTL cache over    *)
(* the Netmaker client (pkg/netmaker, CachedClient) and the node           *)
(* controller (pkg/controller: workqueue, event handlers, orphan cleanup). *)
(*                                                                         *)
(* Strings that the code parses or formats are sequences of tokens, so a   *)
(* description is built and parsed the way the code does it.               *)
(***************************************************************************)
EXTENDS Integers, Sequences, FiniteSets, TLC

(***************************************************************************)
(* Bounds of the model and program constants                               *)
(***************************************************************************)

\* Most egress rules the mesh holds; a create beyond it is not explored.
MaxRules == 5

\* Most calls of the underlying client that fail in one run.
MaxFaults == 1

\* The largest index whose description is built and parsed back.
MaxIndex == 12

\* The goroutines inside the cached client at a time.
MaxCallers == 2

\* Most egress rules the mesh holds while the cached client is called directly.
MaxLibRules == 2

\* The largest rule id a direct call of the cached client names.
MaxLibIds == 3

\* Most direct calls of the cached client in one run.
MaxLibCalls == 4

\* The worker goroutines of the controller (Options.WorkerCount at most).
MaxWorkers == 2

\* reconciler.go:17, the metric written into every nodes map.
EgressMetric == 500

\* The cache TTL in ticks of the model's clock (cache.go:37 makes it 30 s when
\* none is given).
TTL == 1

\* F applied to the value of x, which is computed once.
With(x, F(_)) == CHOOSE r \in { F(v) : v \in {x} } : TRUE

(***************************************************************************)
(* Strings                                                                 *)
(***************************************************************************)

\* reconciler.go:15. The marker is one token: no code looks inside it.
EgressMarker == "Managed by kaput-not (DO NOT EDIT)"

Digits == <<"0", "1", "2", "3", "4", "5", "6", "7", "8", "9">>

IsDigit(t) == \E d \in 1..10 : Digits[d] = t

DigitVal(t) == (CHOOSE d \in 1..10 : Digits[d] = t) - 1

\* fmt.Sprintf("%d", n) for n >= 0.
RECURSIVE Itoa(_)
Itoa(n) == IF n < 10 THEN <<Digits[n + 1]>>
           ELSE Itoa(n \div 10) \o <<Digits[(n % 10) + 1]>>

\* The longest prefix of s made of digits.
RECURSIVE DigitPrefix(_)
DigitPrefix(s) == IF s = <<>> \/ ~IsDigit(Head(s)) THEN <<>>
                  ELSE <<Head(s)>> \o DigitPrefix(Tail(s))

RECURSIVE DigitsValue(_, _)
DigitsValue(s, acc) == IF s = <<>> THEN acc
                       ELSE DigitsValue(Tail(s), acc * 10 + DigitVal(Head(s)))

\* fmt.Sscanf(s, "%d", &x): an optional sign, then at least one digit; what
\* follows the digits is left unread. ok = FALSE when no integer was read.
Sscanf(s) ==
    LET signed == s # <<>> /\ Head(s) \in {"-", "+"}
        body   == IF signed THEN Tail(s) ELSE s
        ds     == DigitPrefix(body)
    IN  IF ds = <<>> THEN [ok |-> FALSE, val |-> 0]
        ELSE [ok |-> TRUE,
              val |-> IF signed /\ Head(s) = "-" THEN 0 - DigitsValue(ds, 0)
                      ELSE DigitsValue(ds, 0)]

\* strings.Fields: the maximal runs of non-space tokens.
RECURSIVE Fields(_, _)
Fields(s, cur) ==
    IF s = <<>> THEN (IF cur = <<>> THEN <<>> ELSE <<cur>>)
    ELSE IF Head(s) = " "
         THEN (IF cur = <<>> THEN <<>> ELSE <<cur>>) \o Fields(Tail(s), <<>>)
         ELSE Fields(Tail(s), Append(cur, Head(s)))

\* The position of the first "=" of s, or 0.
RECURSIVE IndexOfEq(_, _)
IndexOfEq(s, k) == IF k > Len(s) THEN 0
                   ELSE IF s[k] = "=" THEN k
                   ELSE IndexOfEq(s, k + 1)

\* strings.SplitN(field, "=", 2).
SplitN2(field) ==
    LET p == IndexOfEq(field, 1)
    IN  IF p = 0 THEN <<field>>
        ELSE <<SubSeq(field, 1, p - 1), SubSeq(field, p + 1, Len(field))>>

HasMarkerPrefix(description) ==
    /\ Len(description) >= 3
    /\ SubSeq(description, 1, 3) = <<EgressMarker, ":", " ">>

NoMeta == [managed |-> FALSE]

\* The loop of parseEgressDescription over the fields.
RECURSIVE ParseFields(_, _)
ParseFields(fields, meta) ==
    IF fields = <<>> THEN meta
    ELSE LET kv == SplitN2(Head(fields))
         IN  IF Len(kv) # 2 THEN ParseFields(Tail(fields), meta)
             ELSE IF kv[1] = <<"cluster">>
                  THEN ParseFields(Tail(fields), [meta EXCEPT !.cluster = kv[2]])
             ELSE IF kv[1] = <<"index">>
                  THEN LET r == Sscanf(kv[2])
                       IN  ParseFields(Tail(fields),
                               IF r.ok THEN [meta EXCEPT !.index = r.val] ELSE meta)
             ELSE ParseFields(Tail(fields), meta)

\* The values of the fields of the form index=<value>, in order.
RECURSIVE IndexValues(_)
IndexValues(fields) ==
    IF fields = <<>> THEN <<>>
    ELSE LET kv == SplitN2(Head(fields))
         IN  (IF Len(kv) = 2 /\ kv[1] = <<"index">> THEN <<kv[2]>> ELSE <<>>)
                 \o IndexValues(Tail(fields))

\* A parser that rejects a description with an index that does not scan: C37
\* does not hold of it.
parseEgressDescriptionStrict(description) ==
    IF ~HasMarkerPrefix(description) THEN NoMeta
    ELSE LET fields == Fields(SubSeq(description, 4, Len(description)), <<>>)
             values == IndexValues(fields)
         IN  IF \E k \in 1..Len(values) : ~Sscanf(values[k]).ok THEN NoMeta
             ELSE ParseFields(fields,
                              [managed |-> TRUE, cluster |-> <<>>, index |-> 0])

parseEgressDescription(description) ==
    IF ~HasMarkerPrefix(description) THEN NoMeta
    ELSE ParseFields(Fields(SubSeq(description, 4, Len(description)), <<>>),
                     [managed |-> TRUE, cluster |-> <<>>, index |-> 0])

belongsToOurCluster(metadata, cn) ==
    IF ~metadata.managed THEN FALSE
    ELSE IF cn = <<>> THEN metadata.cluster = <<>>
    ELSE metadata.cluster = cn

buildEgressDescription(cn, index) ==
    IF cn # <<>>
    THEN <<EgressMarker, ":", " ", "cluster", "=">> \o cn
             \o <<" ", "index", "=">> \o Itoa(index)
    ELSE <<EgressMarker, ":", " ", "index", "=">> \o Itoa(index)

\* A name that counts the rules from zero: C12 does not hold of it.
buildEgressNameZeroBased(nodeName, index, totalCIDRs) ==
    <<nodeName, " pods (">> \o Itoa(index) \o <<"/">> \o Itoa(totalCIDRs)
        \o <<")">>

buildEgressName(nodeName, index, totalCIDRs) ==
    <<nodeName, " pods (">> \o Itoa(index + 1) \o <<"/">> \o Itoa(totalCIDRs)
        \o <<")">>

\* The text after "cluster=" that buildEgressDescription is given in the model:
\* no name, a plain name, a name with a space in it, another cluster's name.
ScopeNames == { <<>>, <<"a">>, <<"a", " ", "b">>, <<"b">> }

\* The descriptions a rule of the model can carry, and their parse, computed
\* once.
Descriptions ==
    {<<"x">>} \cup { buildEgressDescription(c, i) : c \in ScopeNames, i \in 0..1 }

ParsedDescriptions == [d \in Descriptions |-> parseEgressDescription(d)]

Metadata(description) ==
    IF description \in Descriptions THEN ParsedDescriptions[description]
    ELSE parseEgressDescription(description)

\* A rule the controller owns under cluster name cn.
Owned(rule, cn) == belongsToOurCluster(Metadata(rule.description), cn)


(***************************************************************************)
(* The mesh and the cluster the model runs against                         *)
(***************************************************************************)

\* The values of the controller's clusterName: none, a plain name, and a name
\* with a space in it (the configuration is not validated anywhere).
ClusterNames == { <<>>, <<"a">>, <<"a", " ", "b">> }

K8sNames == {"node-a"}

PodCIDRLists == { <<>>, <<"c0">>, <<"c0", "c1">> }

\* GET /api/hosts: node-a is bound to host h1, which has joined one network.
Hosts == << [id |-> "h1", name |-> "node-a", nodes |-> <<"u1">>] >>

\* The same mesh with h1 registered under a name that is no K8s node's: no host
\* carries the name node-a.
OtherHosts == << [id |-> "h1", name |-> "gateway", nodes |-> <<"u1">>] >>

HostLists == { Hosts, OtherHosts }

\* GET /api/nodes.
MeshNodes == << [id |-> "u1", hostid |-> "h1", network |-> "net1"] >>

\* The mesh has two networks; the cluster's hosts have joined net1 only.
Networks == {"net1", "net2"}

NodeIDs == {"u1"}

\* The rules the mesh holds before the controller starts, all three on the mesh
\* node u1: one that is not managed, and a cluster-scoped and a legacy rule
\* left behind by earlier runs.
InitialEgress ==
    << [id |-> 1, name |-> <<"manual">>, network |-> "net1",
        description |-> <<"x">>, range |-> "c0", nat |-> TRUE,
        nodes |-> [u \in {"u1"} |-> 100], status |-> TRUE],
       [id |-> 2, name |-> buildEgressName("node-a", 0, 1), network |-> "net1",
        description |-> buildEgressDescription(<<"a">>, 0), range |-> "c1",
        nat |-> FALSE, nodes |-> [u \in {"u1"} |-> EgressMetric], status |-> TRUE],
       [id |-> 3, name |-> buildEgressName("node-a", 0, 1), network |-> "net1",
        description |-> buildEgressDescription(<<>>, 0), range |-> "c1",
        nat |-> FALSE, nodes |-> [u \in {"u1"} |-> EgressMetric], status |-> TRUE] >>

\* What a call of the underlying client can do: succeed; fail with nothing
\* done; or fail after the server has done it (a 2xx answer that fails the
\* Content-Type, decode or Code check, or an answer that never arrives).
\* A failed read either says so, or fails with a text that holds "not found"
\* (an HTTP 404 page for example).
ReadOutcomes == {"ok", "rejected", "notfound"}

WriteOutcomes == {"ok", "rejected", "lost"}

NoRule == [id |-> 0]

NoNode == <<"absent">>

VARIABLES
    clusterName,   \* Reconciler.clusterName
    meshHosts,     \* the hosts the mesh holds (GET /api/hosts)
    meshNodes,     \* the mesh nodes the mesh holds (GET /api/nodes)
    informer,      \* the node informer's cache: node name -> podCIDRs or NoNode
    queue,         \* the workqueue's keys
    egress,        \* the egress rules the mesh holds, in list order
    hostsCache,    \* CachedClient.hosts and hostsFetchedAt
    nodesCache,    \* CachedClient.nodes and nodesFetchedAt
    egressCache,   \* CachedClient.egressByNetwork and egressFetchedAt
    phase,         \* Controller.Run: "initial" until the first cleanup pass ended
    worker,        \* the worker and the ReconcileNode call it is in
    cleaner,       \* the orphan cleanup pass in progress
    deleter,       \* the delete handler and the DeleteNode call it is in
    faults,        \* the calls of the underlying client that have failed
    pass,          \* history: the cleanup pass since the informer's cache last changed
    settled,       \* history: node name -> the podCIDRs of its last ReconcileNode
                   \* that returned nil with the mesh unchanged since, or NoNode
    mu,            \* CachedClient.mu: the goroutine that holds the write lock
    callers,       \* the goroutines inside a call of the CachedClient
    done,          \* history: the call of the CachedClient that returned last
    begun,         \* history: the calls of the CachedClient begun so far
    token,         \* HTTPClient.token
    http,          \* the call of the HTTPClient in progress, or the last one
    proc,          \* the process: main, the leader election, the exit code
    run,           \* Controller.Run: how far it has got
    wq,            \* Controller.workqueue
    workers,       \* the worker goroutines: the key each is processing
    nodeInformer,  \* Controller.nodeInformer: its store, the DeleteNode call
                   \* its handler is in
    sweep,         \* the cleanup pass in progress: initial or periodic
    event          \* the last call of a handler of the controller: what it
                   \* was given and what it did

\* The library seen call by call: the lock and the callers of the CachedClient,
\* the token and the request of the HTTPClient.
libVars == <<mu, callers, done, begun, token, http>>

\* The process and the controller's goroutines, seen without the mesh.
ctlVars == <<proc, run, wq, workers, nodeInformer, sweep, event>>

\* The controller and the reconciler.
engineVars == <<clusterName, meshHosts, meshNodes, informer, queue, phase, worker, cleaner,
                deleter, faults, pass, settled>>

vars == <<clusterName, meshHosts, meshNodes, informer, queue, egress, hostsCache, nodesCache,
          egressCache, phase, worker, cleaner, deleter, faults, pass, settled,
          mu, callers, done, begun, token, http, proc, run, wq, workers,
          nodeInformer, sweep, event>>

(***************************************************************************)
(* The mesh server, as the client's calls see it                           *)
(***************************************************************************)

ServerListEgress(rules, network) ==
    SelectSeq(rules, LAMBDA r : r.network = network)

RuleIds(rules) == { rules[k].id : k \in 1..Len(rules) }

RuleOfReq(req, id) ==
    [id |-> id, name |-> req.name, network |-> req.network,
     description |-> req.description, range |-> req.range, nat |-> req.nat,
     nodes |-> req.nodes, status |-> req.status]

ServerCreate(rules, req, id) == Append(rules, RuleOfReq(req, id))

ServerUpdate(rules, req) ==
    [k \in 1..Len(rules) |->
        IF rules[k].id = req.id THEN RuleOfReq(req, req.id) ELSE rules[k]]

ServerDelete(rules, id) == SelectSeq(rules, LAMBDA r : r.id # id)

(***************************************************************************)
(* CachedClient                                                            *)
(***************************************************************************)

\* A cache that still serves an entry whose age is the TTL: C8 does not hold of
\* it.
CacheFreshInclusive(age) == age <= TTL

\* time.Since(fetchedAt) < c.ttl, with age = now - fetchedAt.
CacheFresh(age) == age < TTL

NoEntry == [present |-> FALSE, list |-> <<>>, age |-> 0]

ReadRec(what, network, hit, age, err) ==
    [what |-> what, net |-> network, hit |-> hit, age |-> age, err |-> err]

\* ListHosts and ListNodes: cache is the entry, fresh what the mesh returns now,
\* out the outcome of the underlying call if one is made.
ListCached(what, cache, fresh, out) ==
    IF CacheFresh(cache.age)
    THEN [err |-> FALSE, text |-> "", val |-> cache.data, cache |-> cache,
          read |-> ReadRec(what, "", TRUE, cache.age, FALSE)]
    ELSE IF out = "ok"
    THEN [err |-> FALSE, text |-> "", val |-> fresh,
          cache |-> [data |-> fresh, age |-> 0],
          read |-> ReadRec(what, "", FALSE, 0, FALSE)]
    ELSE [err |-> TRUE, text |-> out, val |-> <<>>, cache |-> cache,
          read |-> ReadRec(what, "", FALSE, 0, TRUE)]

ListHosts(out) == ListCached("hosts", hostsCache, meshHosts, out)

ListNodes(out) == ListCached("nodes", nodesCache, meshNodes, out)

\* ListEgress(network) against the cache ec and the mesh's rules.
\* A ListEgress that drops the entry when the refetch fails: C40 does not hold
\* of it.
ListEgressDropping(ec, rules, network, out) ==
    IF ec[network].present /\ CacheFresh(ec[network].age)
    THEN [err |-> FALSE, val |-> ec[network].list, ecache |-> ec,
          read |-> ReadRec("egress", network, TRUE, ec[network].age, FALSE)]
    ELSE IF out = "ok"
    THEN [err |-> FALSE, val |-> ServerListEgress(rules, network),
          ecache |-> [ec EXCEPT ![network] =
                         [present |-> TRUE, age |-> 0,
                          list |-> ServerListEgress(rules, network)]],
          read |-> ReadRec("egress", network, FALSE, 0, FALSE)]
    ELSE [err |-> TRUE, val |-> <<>>, ecache |-> [ec EXCEPT ![network] = NoEntry],
          read |-> ReadRec("egress", network, FALSE, 0, TRUE)]

ListEgress(ec, rules, network, out) ==
    IF ec[network].present /\ CacheFresh(ec[network].age)
    THEN [err |-> FALSE, val |-> ec[network].list, ecache |-> ec,
          read |-> ReadRec("egress", network, TRUE, ec[network].age, FALSE)]
    ELSE IF out = "ok"
    THEN [err |-> FALSE, val |-> ServerListEgress(rules, network),
          ecache |-> [ec EXCEPT ![network] =
                         [present |-> TRUE, age |-> 0,
                          list |-> ServerListEgress(rules, network)]],
          read |-> ReadRec("egress", network, FALSE, 0, FALSE)]
    ELSE [err |-> TRUE, val |-> <<>>, ecache |-> ec,
          read |-> ReadRec("egress", network, FALSE, 0, TRUE)]

\* GetNodeIDsByHostname over a hosts list: the nodes of the first host of that
\* name.
HostIndex(hosts, hostname) ==
    IF \E k \in 1..Len(hosts) : hosts[k].name = hostname
    THEN CHOOSE k \in 1..Len(hosts) :
            /\ hosts[k].name = hostname
            /\ \A j \in 1..(k - 1) : hosts[j].name # hostname
    ELSE 0

GetNodeIDsByHostname(hostname, out) ==
    LET h == ListHosts(out)
        k == HostIndex(h.val, hostname)
    IN  IF h.err THEN [err |-> TRUE, text |-> h.text, val |-> <<>>, res |-> h]
        ELSE IF k = 0
        THEN [err |-> TRUE, text |-> "notfound", val |-> <<>>, res |-> h]
        ELSE [err |-> FALSE, text |-> "", val |-> h.val[k].nodes, res |-> h]

CallRec(op, req, target, out, uuid, index) ==
    [op |-> op, req |-> req, target |-> target, out |-> out, uuid |-> uuid,
     index |-> index]

\* The ids some rule of the mesh or of a cached list has.
SeqIds(rules) == { rules[k].id : k \in 1..Len(rules) }

UsedIds(w) ==
    SeqIds(w.egress) \cup UNION { SeqIds(w.ecache[n].list) : n \in Networks }

\* Ids are opaque: the mesh gives a new rule an id nothing refers to.
FreshId(w) ==
    With(UsedIds(w),
         LAMBDA used : CHOOSE id \in 1..(3 * MaxRules + 1) :
                          /\ id \notin used
                          /\ \A j \in 1..(id - 1) : j \in used)

\* A write through the cached client. w holds the mesh's rules, the egress
\* cache and the calls issued so far in this step.
\* An invalidation that drops every network's entry whatever the request's
\* network: C15 does not hold of it.
InvalidateEvery(ec, network) == [n \in Networks |-> NoEntry]

\* A create or update that leaves the entry of its network in place: C38 does
\* not hold of it.
InvalidateNone(ec, network) == ec

InvalidateNetwork(ec, network) == [ec EXCEPT ![network] = NoEntry]

\* An invalidation that drops the entry of one network only: C14 does not hold
\* of it.
InvalidateOne(ec) == InvalidateNetwork(ec, "net1")

InvalidateAll(ec) == [n \in Networks |-> NoEntry]

CreateEgress(w, req, out, uuid, index) ==
    [egress |-> IF out \in {"ok", "lost"}
                THEN ServerCreate(w.egress, req, FreshId(w))
                ELSE w.egress,
     ecache |-> IF out = "ok" THEN InvalidateNetwork(w.ecache, req.network)
                ELSE w.ecache,
     calls  |-> Append(w.calls, CallRec("create", req, NoRule, out, uuid, index)),
     err    |-> out # "ok",
     text   |-> w.text]

\* The mesh refuses an update of a rule it does not hold.
UpdateEgress(w, req, target, out, uuid, index) ==
    LET held == req.id \in RuleIds(w.egress)
        res  == IF held THEN out ELSE "rejected"
    IN  [egress |-> IF res \in {"ok", "lost"} THEN ServerUpdate(w.egress, req)
                    ELSE w.egress,
         ecache |-> IF res = "ok" THEN InvalidateNetwork(w.ecache, req.network)
                    ELSE w.ecache,
         calls  |-> Append(w.calls, CallRec("update", req, target, res, uuid, index)),
         err    |-> res # "ok",
         text   |-> w.text]

NoReq == [id |-> 0]

DeleteEgress(w, target, out, uuid) ==
    [egress |-> IF out \in {"ok", "lost"} THEN ServerDelete(w.egress, target.id)
                ELSE w.egress,
     ecache |-> IF out = "ok" THEN InvalidateAll(w.ecache) ELSE w.ecache,
     calls  |-> Append(w.calls, CallRec("delete", NoReq, target, out, uuid, 0)),
     err    |-> w.err \/ out # "ok",
     text   |-> w.text]

(***************************************************************************)
(* Reconciler                                                              *)
(***************************************************************************)

IsDeletableRule(rule, cn, nodeID) ==
    /\ belongsToOurCluster(Metadata(rule.description), cn)
    /\ nodeID \in DOMAIN rule.nodes

IsMatch(rule, cn, index, nodeID) ==
    LET metadata == Metadata(rule.description)
    IN  /\ metadata.managed
        /\ belongsToOurCluster(metadata, cn)
        /\ metadata.index = index
        /\ nodeID \in DOMAIN rule.nodes

\* A search that takes the first owned rule of the mesh node whatever its
\* index: C11 does not hold of it.
FindMatchAnyIndex(existingEgresses, cn, index, nodeID) ==
    IF \E k \in 1..Len(existingEgresses) :
           IsDeletableRule(existingEgresses[k], cn, nodeID)
    THEN CHOOSE k \in 1..Len(existingEgresses) :
            /\ IsDeletableRule(existingEgresses[k], cn, nodeID)
            /\ \A j \in 1..(k - 1) : ~IsDeletableRule(existingEgresses[j], cn, nodeID)
    ELSE 0

\* A search that takes the last match in the list: C30 does not hold of it.
FindMatchLast(existingEgresses, cn, index, nodeID) ==
    IF \E k \in 1..Len(existingEgresses) :
           IsMatch(existingEgresses[k], cn, index, nodeID)
    THEN CHOOSE k \in 1..Len(existingEgresses) :
            /\ IsMatch(existingEgresses[k], cn, index, nodeID)
            /\ \A j \in (k + 1)..Len(existingEgresses) :
                   ~IsMatch(existingEgresses[j], cn, index, nodeID)
    ELSE 0

\* The search loop of reconcilePodCIDR: the position of the first match in the
\* list, or 0.
FindMatch(existingEgresses, cn, index, nodeID) ==
    IF \E k \in 1..Len(existingEgresses) :
           IsMatch(existingEgresses[k], cn, index, nodeID)
    THEN CHOOSE k \in 1..Len(existingEgresses) :
            /\ IsMatch(existingEgresses[k], cn, index, nodeID)
            /\ \A j \in 1..(k - 1) : ~IsMatch(existingEgresses[j], cn, index, nodeID)
    ELSE 0

EgressReq(id, name, network, description, range, nodeID) ==
    [id |-> id, name |-> name, network |-> network, description |-> description,
     range |-> range, nat |-> FALSE, nodes |-> [u \in {nodeID} |-> EgressMetric],
     status |-> TRUE]

\* A reconcilePodCIDR that replaces a rule whose range is wrong by a new rule
\* instead of updating it: C9 does not hold of it.
reconcilePodCIDRRecreate(w, cn, nodeName, nodeID, podCIDR, index, totalCIDRs, existingEgresses, network, out) ==
    LET description == buildEgressDescription(cn, index)
        name == buildEgressName(nodeName, index, totalCIDRs)
    IN  With(FindMatch(existingEgresses, cn, index, nodeID),
             LAMBDA k :
                 IF k # 0 /\ existingEgresses[k].range = podCIDR
                 THEN [w EXCEPT !.err = FALSE]
                 ELSE CreateEgress(w,
                          EgressReq(0, name, network, description, podCIDR,
                                    nodeID),
                          out, nodeID, index))

\* A reconcilePodCIDR that rewrites every rule it matches, also one whose range
\* is right: C10 as amended does not hold of it.
reconcilePodCIDRRewrite(w, cn, nodeName, nodeID, podCIDR, index, totalCIDRs, existingEgresses, network, out) ==
    LET description == buildEgressDescription(cn, index)
        name == buildEgressName(nodeName, index, totalCIDRs)
    IN  With(FindMatch(existingEgresses, cn, index, nodeID),
             LAMBDA k :
                 IF k # 0
                 THEN UpdateEgress(w,
                          EgressReq(existingEgresses[k].id, name,
                                    existingEgresses[k].network,
                                    description, podCIDR, nodeID),
                          existingEgresses[k], out, nodeID, index)
                 ELSE CreateEgress(w,
                          EgressReq(0, name, network, description, podCIDR,
                                    nodeID),
                          out, nodeID, index))

\* One call of reconcilePodCIDR.
reconcilePodCIDR(w, cn, nodeName, nodeID, podCIDR, index, totalCIDRs, existingEgresses, network, out) ==
    LET description == buildEgressDescription(cn, index)
        name == buildEgressName(nodeName, index, totalCIDRs)
    IN  With(FindMatch(existingEgresses, cn, index, nodeID),
             LAMBDA k :
                 IF k # 0
                 THEN IF existingEgresses[k].range = podCIDR
                      THEN [w EXCEPT !.err = FALSE]
                      ELSE UpdateEgress(w,
                               EgressReq(existingEgresses[k].id, name,
                                         existingEgresses[k].network,
                                         description, podCIDR, nodeID),
                               existingEgresses[k], out, nodeID, index)
                 ELSE CreateEgress(w,
                          EgressReq(0, name, network, description, podCIDR,
                                    nodeID),
                          out, nodeID, index))

\* The messages of the errors reconcileNodeInNetwork and deleteNodeFromNetwork
\* return, word by word up to the wrapped error.
ListEgressError(network) == <<"failed to list egress rules in network ", network>>

PodCIDRError(podCIDR, index, network) ==
    <<"failed to reconcile pod CIDR ", podCIDR, " (index=">> \o Itoa(index)
        \o <<") in network ", network>>

DeleteRulesError(network) ==
    <<"failed to delete some egress rules in network ", network>>

\* A loop that goes on with the next pod CIDR after an error: C29 does not hold
\* of it.
RECURSIVE ReconcileLoopOn(_, _, _, _, _, _, _, _, _)
ReconcileLoopOn(w, cn, nodeName, nodeID, podCIDRs, i, existingEgresses, network, outs) ==
    IF i >= Len(podCIDRs) THEN w
    ELSE With(reconcilePodCIDR(w, cn, nodeName, nodeID, podCIDRs[i + 1], i,
                               Len(podCIDRs), existingEgresses, network,
                               outs[i + 1]),
              LAMBDA w2 :
                  ReconcileLoopOn([w2 EXCEPT !.err = w.err \/ w2.err,
                                             !.text = IF w2.err
                                                      THEN PodCIDRError(podCIDRs[i + 1], i, network)
                                                      ELSE w.text],
                                  cn, nodeName, nodeID, podCIDRs, i + 1,
                                  existingEgresses, network, outs))

\* The loop of reconcileNodeInNetwork over the pod CIDRs from index i on, which
\* ends at the first error.
RECURSIVE ReconcileLoop(_, _, _, _, _, _, _, _, _)
ReconcileLoop(w, cn, nodeName, nodeID, podCIDRs, i, existingEgresses, network, outs) ==
    IF i >= Len(podCIDRs) THEN w
    ELSE With(reconcilePodCIDR(w, cn, nodeName, nodeID, podCIDRs[i + 1], i,
                               Len(podCIDRs), existingEgresses, network,
                               outs[i + 1]),
              LAMBDA w2 :
                  IF w2.err
                  THEN [w2 EXCEPT !.text = PodCIDRError(podCIDRs[i + 1], i,
                                                        network)]
                  ELSE ReconcileLoop(w2, cn, nodeName, nodeID, podCIDRs, i + 1,
                                     existingEgresses, network, outs))

\* The rules deleteNodeFromNetwork deletes, in list order.
IsDeletable(rule, cn, nodeID) ==
    LET metadata == Metadata(rule.description)
    IN  /\ metadata.managed
        /\ belongsToOurCluster(metadata, cn)
        /\ nodeID \in DOMAIN rule.nodes

Deletable(egresses, cn, nodeID) ==
    SelectSeq(egresses, LAMBDA r : IsDeletable(r, cn, nodeID))

\* A loop that ends at the first delete that fails: C22 does not hold of it.
RECURSIVE DeleteLoopStop(_, _, _, _, _)
DeleteLoopStop(w, targets, outs, k, nodeID) ==
    IF k > Len(targets) THEN w
    ELSE With(DeleteEgress(w, targets[k], outs[k], nodeID),
              LAMBDA w2 : IF w2.err THEN w2
                          ELSE DeleteLoopStop(w2, targets, outs, k + 1, nodeID))

\* The loop of deleteNodeFromNetwork over the rules to delete from the k-th on,
\* which goes on after an error.
RECURSIVE DeleteLoop(_, _, _, _, _)
DeleteLoop(w, targets, outs, k, nodeID) ==
    IF k > Len(targets) THEN w
    ELSE With(DeleteEgress(w, targets[k], outs[k], nodeID),
              LAMBDA w2 : DeleteLoop(w2, targets, outs, k + 1, nodeID))

\* What a call of reconcileNodeInNetwork or deleteNodeFromNetwork did: the
\* mesh's rules and the cache after it, the read and the calls it made, the
\* list it worked on, and whether it returned an error.
Did(w, l) ==
    [egress |-> w.egress, ecache |-> w.ecache, calls |-> w.calls, err |-> w.err,
     read |-> l.read, list |-> l.val, text |-> w.text]

\* The mesh's rules, the egress cache and the calls made, after the list call l.
World(rules, l) ==
    [egress |-> rules, ecache |-> l.ecache, calls |-> <<>>, err |-> l.err,
     text |-> IF l.err THEN ListEgressError(l.read.net) ELSE <<>>]

\* reconcileNodeInNetwork against the mesh's rules and the egress cache ec; ol
\* is the outcome of the list call and outs[i + 1] of the write for index i.
reconcileNodeInNetwork(rules, ec, cn, nodeName, podCIDRs, nodeID, network, ol, outs) ==
    With(ListEgress(ec, rules, network, ol),
         LAMBDA l :
             IF l.err THEN Did(World(rules, l), l)
             ELSE With(ReconcileLoop(World(rules, l), cn, nodeName, nodeID,
                                     podCIDRs, 0, l.val, network, outs),
                       LAMBDA w : Did(w, l)))

\* deleteNodeFromNetwork; outs[k] is the outcome of the k-th delete.
deleteNodeFromNetwork(rules, ec, cn, nodeID, network, ol, outs) ==
    With(ListEgress(ec, rules, network, ol),
         LAMBDA l :
             IF l.err THEN Did(World(rules, l), l)
             ELSE With(Deletable(l.val, cn, nodeID),
                       LAMBDA targets :
                           With(DeleteLoop(World(rules, l), targets, outs, 1,
                                           nodeID),
                                LAMBDA w :
                                    Did([w EXCEPT !.text =
                                            IF w.err THEN DeleteRulesError(network)
                                            ELSE <<>>], l))))

\* The number of deletes deleteNodeFromNetwork issues.
DeleteCount(rules, ec, cn, nodeID, network, ol) ==
    With(ListEgress(ec, rules, network, ol),
         LAMBDA l : IF l.err THEN 0 ELSE Len(Deletable(l.val, cn, nodeID)))

\* The mesh nodes of a nodes list whose id is among nodeIDs (the filter of
\* ReconcileNode and DeleteNode).
BelongsToHost(allNodes, nodeIDs) ==
    SelectSeq(allNodes,
              LAMBDA n : \E k \in 1..Len(nodeIDs) : nodeIDs[k] = n.id)

(***************************************************************************)
(* State                                                                   *)
(***************************************************************************)

IdleWorker == [pc |-> "idle", key |-> "", cidrs |-> <<>>, todo |-> <<>>,
               errs |-> {}, again |-> FALSE]

IdleCleaner == [pc |-> "idle", valid |-> {}, todo |-> <<>>, err |-> FALSE]

IdleDeleter == [pc |-> "idle", name |-> "", todo |-> <<>>, err |-> FALSE]

Unsettled == [n \in K8sNames |-> NoNode]

\* pass.state is "none" until a cleanup pass begins after the last change of
\* the informer's cache, "running" while that pass runs without an error, and
\* "ended" once it has ended without one. pass.pure: no reconcile was in flight
\* when the pass began and every egress list of the pass was fetched.
\* pass.calm: when the pass began nothing was queued, no reconcile and no
\* DeleteNode was in flight. pass.swept: the rules the pass has removed from the
\* mesh. pass.missed: the last change of the informer's cache was a deletion
\* that no handler saw.
NoPass == [state |-> "none", pure |-> FALSE, calm |-> FALSE, swept |-> 0,
           missed |-> FALSE]

\* The history after a pass failed.
PassFailed(p) == [NoPass EXCEPT !.missed = p.missed]

\* The goroutines that call the CachedClient: the worker, the cleanup pass and
\* the informer's delete handler at most, two of them here.
Callers == 1..MaxCallers

\* A goroutine inside the CachedClient. served, seen: the mesh has answered
\* the reader's GET, and with which list. net, unseen: the network a writer's
\* request has changed, and who holds a list of that network fetched before
\* the change (0: the cache entry; a reader: its GET has been answered).
IdleCaller == [pc |-> "idle", op |-> "", key |-> "", refreshed |-> FALSE,
               served |-> FALSE, seen |-> <<>>, net |-> "", unseen |-> {}]

NoCall == [op |-> "", key |-> "", how |-> "", err |-> FALSE, dropped |-> {}]

NoResponse == [status |-> 0, ctype |-> <<>>, shape |-> "", code |-> 0,
               authtoken |-> ""]

IdleHttp == [pc |-> "idle", op |-> "", sends |-> 0, reauths |-> 0, first |-> 0,
             reauth |-> "none", checked |-> NoResponse, result |-> ""]

\* The keys of the workqueue.
CtlKeys == {"node-a", "node-b"}

Workers == 1..MaxWorkers

IdleQueue == [queue |-> <<>>, dirty |-> {}, processing |-> {}, waiting |-> {},
              shut |-> FALSE]

NoWork == [pc |-> "idle", key |-> "", reconciling |-> FALSE]

NoSweep == [pc |-> "idle", orphans |-> {}]

\* No handler has been called.
NoEvent == [handler |-> "none", given |-> <<>>, enqueued |-> <<>>,
            calls |-> <<>>, reported |-> 0, returned |-> "nil"]

\* No process: the variables of the process and of the controller's goroutines
\* where the mesh and the library are looked at by themselves.
CtlIdle ==
    /\ proc = [pc |-> "none", le |-> FALSE, lease |-> "none", signal |-> FALSE,
               lost |-> FALSE, code |-> -1, workerCount |-> 1]
    /\ run = [pc |-> "none", workers |-> 0]
    /\ wq = IdleQueue
    /\ workers = [w \in Workers |-> NoWork]
    /\ nodeInformer = [store |-> {}, deleting |-> ""]
    /\ sweep = NoSweep
    /\ event = NoEvent

\* Nobody is inside the library.
LibIdle ==
    /\ mu = 0
    /\ callers = [c \in Callers |-> IdleCaller]
    /\ done = NoCall
    /\ begun = 0
    /\ token = ""
    /\ http = IdleHttp

Init ==
    /\ CtlIdle
    /\ LibIdle
    /\ clusterName \in ClusterNames
    /\ meshHosts \in HostLists
    /\ meshNodes = MeshNodes
    /\ informer = [n \in K8sNames |-> NoNode]
    /\ queue = {}
    /\ egress = InitialEgress
    /\ hostsCache = [data |-> <<>>, age |-> TTL]
    /\ nodesCache = [data |-> <<>>, age |-> TTL]
    /\ egressCache = [n \in Networks |-> NoEntry]
    /\ phase = "initial"
    /\ worker = IdleWorker
    /\ cleaner = IdleCleaner
    /\ deleter = IdleDeleter
    /\ faults = 0
    /\ pass = NoPass
    /\ settled = Unsettled

\* The failed calls a behaviour holds at most: MaxFaults for each network the
\* mesh has nodes in.
FaultBound ==
    MaxFaults * Cardinality({ meshNodes[k].network : k \in 1..Len(meshNodes) })

\* The outcomes a call of the underlying client can have now.
ReadOuts == ReadOutcomes

WriteOuts == WriteOutcomes

(***************************************************************************)
(* The cluster: informer events and their handlers                         *)
(***************************************************************************)

\* A comparison of the lengths only: C33 does not hold of it.
podCIDRsLengthChanged(old, new) == Len(old) # Len(new)

podCIDRsChanged(old, new) ==
    \/ Len(old) # Len(new)
    \/ \E i \in 1..Len(old) : old[i] # new[i]

\* A node appears: handleNodeAdd.
K8sAdd(n, cidrs) ==
    /\ deleter.pc = "idle"
    /\ informer[n] = NoNode
    /\ informer' = [informer EXCEPT ![n] = cidrs]
    /\ queue' = queue \cup {n}
    /\ pass' = NoPass
    /\ UNCHANGED <<ctlVars, libVars, clusterName, meshHosts, meshNodes, egress, hostsCache, nodesCache, egressCache,
                   phase, worker, cleaner, deleter, faults, settled>>

\* A node changes, or the informer resyncs it (cidrs as they were):
\* handleNodeUpdate.
K8sUpdate(n, cidrs) ==
    /\ deleter.pc = "idle"
    /\ informer[n] # NoNode
    /\ informer' = [informer EXCEPT ![n] = cidrs]
    /\ queue' = IF podCIDRsChanged(informer[n], cidrs) THEN queue \cup {n}
                ELSE queue
    /\ pass' = IF informer[n] # cidrs THEN NoPass ELSE pass
    /\ UNCHANGED <<ctlVars, libVars, clusterName, meshHosts, meshNodes, egress, hostsCache, nodesCache, egressCache,
                   phase, worker, cleaner, deleter, faults, settled>>

\* A node is deleted: handleNodeDelete starts DeleteNode. The informer calls
\* its handlers one after the other, so no event arrives while DeleteNode runs.
K8sDelete(n) ==
    /\ deleter.pc = "idle"
    /\ informer[n] # NoNode
    /\ informer' = [informer EXCEPT ![n] = NoNode]
    /\ deleter' = [IdleDeleter EXCEPT !.pc = "start", !.name = n]
    /\ pass' = NoPass
    /\ UNCHANGED <<ctlVars, libVars, clusterName, meshHosts, meshNodes, queue, egress, hostsCache, nodesCache,
                   egressCache, phase, worker, cleaner, faults, settled>>

\* A node is deleted while the controller cannot see it: the delete event never
\* reaches the handler.
K8sDeleteMissed(n) ==
    /\ deleter.pc = "idle"
    /\ informer[n] # NoNode
    /\ informer' = [informer EXCEPT ![n] = NoNode]
    /\ pass' = [NoPass EXCEPT !.missed = TRUE]
    /\ UNCHANGED <<ctlVars, libVars, clusterName, meshHosts, meshNodes, queue, egress, hostsCache, nodesCache,
                   egressCache, phase, worker, cleaner, deleter, faults, settled>>

\* Time passes: every cache entry gets one tick older (ages stop at TTL, from
\* where on an entry is stale whatever its age).
Older(age) == IF age < TTL THEN age + 1 ELSE age

Tick ==
    /\ \/ hostsCache.age < TTL
       \/ nodesCache.age < TTL
       \/ \E n \in Networks : egressCache[n].present /\ egressCache[n].age < TTL
    /\ hostsCache' = [hostsCache EXCEPT !.age = Older(@)]
    /\ nodesCache' = [nodesCache EXCEPT !.age = Older(@)]
    /\ egressCache' = [n \in Networks |->
                          IF egressCache[n].present
                          THEN [egressCache[n] EXCEPT !.age = Older(@)]
                          ELSE egressCache[n]]
    /\ UNCHANGED <<ctlVars, libVars, clusterName, meshHosts, meshNodes, informer, queue, egress, phase, worker, cleaner,
                   deleter, faults, settled, pass>>

(***************************************************************************)
(* The worker: processNextWorkItem, syncHandler, ReconcileNode             *)
(***************************************************************************)

\* The outcome of a read that the cache serves is not drawn.
Drawn(fresh, out) == fresh => out = "ok"

\* The failures among the outcomes of a step.
Failed(reads, outs) ==
    Cardinality({ k \in DOMAIN reads : reads[k] # "ok" })
        + Cardinality({ k \in DOMAIN outs : outs[k] # "ok" })

HostsFresh == CacheFresh(hostsCache.age)

NodesFresh == CacheFresh(nodesCache.age)

EgressFresh(network) ==
    egressCache[network].present /\ CacheFresh(egressCache[network].age)

\* The history of ReconcileNode runs after a step that left the mesh's rules
\* as rules2.
SettledAfter(rules2) == IF rules2 # egress THEN Unsettled ELSE settled

\* A lookup that reports a host it cannot find as an error: C19 does not hold
\* of it.
HostNodesStrict(nodeName, oh, on) ==
    LET g     == GetNodeIDsByHostname(nodeName, oh)
        n     == ListNodes(on)
        nodes == ~g.err /\ Len(g.val) > 0
    IN  [todo   |-> IF nodes /\ ~n.err THEN BelongsToHost(n.val, g.val) ELSE <<>>,
         err    |-> g.err \/ (nodes /\ n.err),
         listed |-> nodes,
         hosts  |-> g.res.cache,
         nodes  |-> IF nodes THEN n.cache ELSE nodesCache,
         reads  |-> <<g.res.read>> \o (IF nodes THEN <<n.read>> ELSE <<>>)]

\* ReconcileNode and DeleteNode up to their loop over the host's mesh nodes:
\* the mesh nodes to visit, and whether the call returns early, with an error
\* or with nil.
HostNodes(nodeName, oh, on) ==
    LET g     == GetNodeIDsByHostname(nodeName, oh)
        n     == ListNodes(on)
        nodes == ~g.err /\ Len(g.val) > 0
    IN  [todo   |-> IF nodes /\ ~n.err THEN BelongsToHost(n.val, g.val) ELSE <<>>,
         err    |-> (g.err /\ g.text # "notfound") \/ (nodes /\ n.err),
         listed |-> nodes,
         hosts  |-> g.res.cache,
         nodes  |-> IF nodes THEN n.cache ELSE nodesCache,
         reads  |-> <<g.res.read>> \o (IF nodes THEN <<n.read>> ELSE <<>>)]

\* The worker takes a key: syncHandler, and ReconcileNode up to its loop over
\* the host's mesh nodes.
WorkerGet(key, oh, on) ==
    /\ phase = "running"
    /\ worker.pc = "idle"
    /\ key \in queue
    /\ LET cidrs == informer[key]
           skip  == cidrs = NoNode \/ Len(cidrs) = 0
           h     == HostNodes(key, oh, on)
           todo  == IF skip THEN <<>> ELSE h.todo
           err   == ~skip /\ h.err
       IN  /\ Drawn(skip \/ HostsFresh, oh)
           /\ Drawn(skip \/ ~h.listed \/ NodesFresh, on)
           /\ hostsCache' = IF skip THEN hostsCache ELSE h.hosts
           /\ nodesCache' = IF skip THEN nodesCache ELSE h.nodes
           /\ worker' = IF todo = <<>> THEN IdleWorker
                        ELSE [IdleWorker EXCEPT !.pc = "nodes", !.key = key,
                                 !.cidrs = cidrs, !.todo = todo,
                                 !.again = (settled[key] = cidrs)]
           /\ faults' = faults + Failed(<<oh, on>>, <<>>)
           /\ faults' <= FaultBound
           /\ queue' = IF err THEN queue ELSE queue \ {key}
           /\ settled' = [settled EXCEPT ![key] = IF todo # <<>> THEN @ ELSE NoNode]
    /\ UNCHANGED <<ctlVars, libVars, clusterName, meshHosts, meshNodes, informer, egress, egressCache, phase, cleaner,
                   deleter, pass>>

\* A ReconcileNode that returns at the first network that fails: C21 does not
\* hold of it.
WorkerOnFatal(errs) ==
    IF Len(worker.todo) > 1 /\ errs = {}
    THEN [worker EXCEPT !.todo = Tail(@), !.errs = errs]
    ELSE IdleWorker

\* The worker after it is through with the current mesh node, with the failed
\* networks errs: the next mesh node, or the end of ReconcileNode.
WorkerOn(errs) ==
    IF Len(worker.todo) > 1
    THEN [worker EXCEPT !.todo = Tail(@), !.errs = errs]
    ELSE IdleWorker

\* processNextWorkItem after syncHandler returned: AddRateLimited on an error,
\* Forget otherwise.
QueueOn(errs) ==
    IF Len(worker.todo) > 1 THEN queue
    ELSE IF errs # {} THEN queue \cup {worker.key}
    ELSE queue

SettledOn(errs, rules2) ==
    IF Len(worker.todo) > 1 THEN SettledAfter(rules2)
    ELSE [SettledAfter(rules2) EXCEPT ![worker.key] =
             IF errs = {} THEN worker.cidrs ELSE NoNode]

\* Every outcome other than "ok" in outs is the outcome of a call of the step.
OutsDrawn(outs, calls) ==
    \A i \in DOMAIN outs :
        outs[i] # "ok" =>
            \E k \in 1..Len(calls) : calls[k].index = i - 1 /\ calls[k].out = outs[i]

\* What the worker's next step does: reconcileNodeInNetwork for the next mesh
\* node of the host.
WorkerStep(ol, outs) ==
    reconcileNodeInNetwork(egress, egressCache, clusterName, worker.key,
                           worker.cidrs, Head(worker.todo).id,
                           Head(worker.todo).network, ol, outs)

WorkerOuts == [1..Len(worker.cidrs) -> WriteOuts]

WorkerNode(ol) ==
    /\ worker.pc = "nodes"
    /\ Drawn(EgressFresh(Head(worker.todo).network), ol)
    /\ \E outs \in WorkerOuts :
         /\ faults + Failed(<<ol>>, outs) <= FaultBound
         /\ \E d \in {WorkerStep(ol, outs)} :
              LET errs == IF d.err
                          THEN worker.errs \cup {Head(worker.todo).network}
                          ELSE worker.errs
              IN
                /\ OutsDrawn(outs, d.calls)
                /\ Len(d.egress) <= MaxRules
                /\ faults' = faults + Failed(<<ol>>, outs)
                /\ egress' = d.egress
                /\ egressCache' = d.ecache
                /\ worker' = WorkerOn(errs)
                /\ queue' = QueueOn(errs)
                /\ settled' = SettledOn(errs, d.egress)
    /\ UNCHANGED <<ctlVars, libVars, clusterName, meshHosts, meshNodes, informer, hostsCache, nodesCache, phase, cleaner,
                   deleter, pass>>

(***************************************************************************)
(* Orphan cleanup: cleanupOrphanedEgresses and CleanupOrphanedEgresses     *)
(***************************************************************************)

\* hostnameToNodeIDs of cleanupOrphanedEgresses: the nodes of the last host of
\* that name (later hosts overwrite earlier ones in the map).
LastHostNodes(hosts, hostname) ==
    IF \E k \in 1..Len(hosts) : hosts[k].name = hostname
    THEN hosts[CHOOSE k \in 1..Len(hosts) :
                  /\ hosts[k].name = hostname
                  /\ \A j \in (k + 1)..Len(hosts) : hosts[j].name # hostname].nodes
    ELSE <<>>

\* A valid set that holds the mesh nodes of every host, whether or not a K8s
\* node has the host's name: C4 as amended does not hold of it.
ValidNodeIDsOfHosts(hosts) ==
    UNION { { hosts[h].nodes[k] : k \in 1..Len(hosts[h].nodes) } :
            h \in 1..Len(hosts) }

\* validNodeIDs: the mesh nodes of every node of the informer's cache that has
\* pod CIDRs and a host of its name.
ValidNodeIDs(hosts) ==
    UNION { { LastHostNodes(hosts, n)[k] : k \in 1..Len(LastHostNodes(hosts, n)) } :
            n \in { m \in K8sNames : informer[m] # NoNode /\ Len(informer[m]) > 0 } }

\* A pass that takes every mesh node for an orphan: C23 does not hold of it.
OrphansAll(allNodes, validNodeIDs) == allNodes

\* The orphans of a pass: the mesh nodes that are not valid.
Orphans(allNodes, validNodeIDs) ==
    SelectSeq(allNodes, LAMBDA m : m.id \notin validNodeIDs)

\* The worker, after another process's step left the mesh's rules as rules2.
WorkerAfter(rules2) ==
    IF rules2 # egress THEN [worker EXCEPT !.again = FALSE] ELSE worker

\* A pass begins: the valid set, the nodes list, the orphans. The first pass
\* runs before the workers start.
CleanupCollect(oh, on) ==
    /\ cleaner.pc = "idle"
    /\ LET h     == ListHosts(oh)
           n     == ListNodes(on)
           valid == ValidNodeIDs(h.val)
           todo  == IF h.err \/ n.err THEN <<>> ELSE Orphans(n.val, valid)
       IN  /\ Drawn(HostsFresh, oh)
           /\ Drawn(h.err \/ NodesFresh, on)
           /\ faults' = faults + Failed(<<oh, on>>, <<>>)
           /\ faults' <= FaultBound
           /\ hostsCache' = h.cache
           /\ nodesCache' = IF h.err THEN nodesCache ELSE n.cache
           /\ cleaner' = IF todo = <<>> THEN IdleCleaner
                         ELSE [IdleCleaner EXCEPT !.pc = "sweep", !.valid = valid,
                                                  !.todo = todo]
           /\ phase' = IF todo = <<>> THEN "running" ELSE phase
           /\ pass' = IF h.err \/ n.err THEN PassFailed(pass)
                      ELSE [state  |-> IF todo = <<>> THEN "ended" ELSE "running",
                            pure   |-> worker.pc = "idle",
                            calm   |-> /\ queue = {}
                                       /\ worker.pc = "idle"
                                       /\ deleter.pc = "idle",
                            swept  |-> 0,
                            missed |-> pass.missed]
    /\ UNCHANGED <<ctlVars, libVars, clusterName, meshHosts, meshNodes, informer, queue, egress, egressCache, worker,
                   deleter, settled>>

\* The position in todo of the first orphan of a network, or 0. The pass takes
\* the networks in the order of a map iteration, the orphans of one network in
\* list order.
FirstOf(todo, network) ==
    IF \E k \in 1..Len(todo) : todo[k].network = network
    THEN CHOOSE k \in 1..Len(todo) :
            /\ todo[k].network = network
            /\ \A j \in 1..(k - 1) : todo[j].network # network
    ELSE 0

Without(todo, k) ==
    [j \in 1..(Len(todo) - 1) |-> IF j < k THEN todo[j] ELSE todo[j + 1]]

\* What the pass's next step does for the first orphan of a network:
\* deleteNodeFromNetwork.
CleanerStep(network, ol, outs) ==
    deleteNodeFromNetwork(egress, egressCache, clusterName,
                          cleaner.todo[FirstOf(cleaner.todo, network)].id,
                          network, ol, outs)

CleanerOuts(network, ol) ==
    [1..DeleteCount(egress, egressCache, clusterName,
                    cleaner.todo[FirstOf(cleaner.todo, network)].id, network, ol)
        -> WriteOuts]

CleanupNode(network, ol) ==
    /\ cleaner.pc = "sweep"
    /\ FirstOf(cleaner.todo, network) # 0
    /\ Drawn(EgressFresh(network), ol)
    /\ \E outs \in CleanerOuts(network, ol) :
         \E d \in {CleanerStep(network, ol, outs)},
            todo \in {Without(cleaner.todo, FirstOf(cleaner.todo, network))} :
             /\ faults' = faults + Failed(<<ol>>, outs)
             /\ faults' <= FaultBound
             /\ egress' = d.egress
             /\ egressCache' = d.ecache
             /\ cleaner' = IF todo = <<>> THEN IdleCleaner
                           ELSE [cleaner EXCEPT !.todo = todo, !.err = @ \/ d.err]
             /\ phase' = IF todo = <<>> THEN "running" ELSE phase
             /\ pass' = IF pass.state # "running" THEN pass
                        ELSE IF d.err THEN PassFailed(pass)
                        ELSE [state  |-> IF todo = <<>> THEN "ended" ELSE "running",
                              pure   |-> pass.pure /\ ~d.read.hit,
                              calm   |-> pass.calm,
                              swept  |-> pass.swept + Len(egress) - Len(d.egress),
                              missed |-> pass.missed]
             /\ worker' = WorkerAfter(d.egress)
             /\ settled' = SettledAfter(d.egress)
    /\ UNCHANGED <<ctlVars, libVars, clusterName, meshHosts, meshNodes, informer, queue, hostsCache, nodesCache, deleter>>

(***************************************************************************)
(* The delete handler: handleNodeDelete and DeleteNode                     *)
(***************************************************************************)

DeleteNodeStart(oh, on) ==
    /\ deleter.pc = "start"
    /\ LET h == HostNodes(deleter.name, oh, on)
       IN  /\ Drawn(HostsFresh, oh)
           /\ Drawn(~h.listed \/ NodesFresh, on)
           /\ faults' = faults + Failed(<<oh, on>>, <<>>)
           /\ faults' <= FaultBound
           /\ hostsCache' = h.hosts
           /\ nodesCache' = h.nodes
           /\ deleter' = IF h.todo = <<>> THEN IdleDeleter
                         ELSE [deleter EXCEPT !.pc = "nodes", !.todo = h.todo]
    /\ UNCHANGED <<ctlVars, libVars, clusterName, meshHosts, meshNodes, informer, queue, egress, egressCache, phase,
                   worker, cleaner, settled, pass>>

\* What the handler's next step does: deleteNodeFromNetwork for the next mesh
\* node of the host.
DeleterStep(ol, outs) ==
    deleteNodeFromNetwork(egress, egressCache, clusterName, Head(deleter.todo).id,
                          Head(deleter.todo).network, ol, outs)

DeleterOuts(ol) ==
    [1..DeleteCount(egress, egressCache, clusterName, Head(deleter.todo).id,
                    Head(deleter.todo).network, ol) -> WriteOuts]

DeleteNodeStep(ol) ==
    /\ deleter.pc = "nodes"
    /\ Drawn(EgressFresh(Head(deleter.todo).network), ol)
    /\ \E outs \in DeleterOuts(ol) :
         \E d \in {DeleterStep(ol, outs)} :
             /\ faults' = faults + Failed(<<ol>>, outs)
             /\ faults' <= FaultBound
             /\ egress' = d.egress
             /\ egressCache' = d.ecache
             /\ deleter' = IF Len(deleter.todo) = 1 THEN IdleDeleter
                           ELSE [deleter EXCEPT !.todo = Tail(@),
                                                !.err = @ \/ d.err]
             /\ worker' = WorkerAfter(d.egress)
             /\ settled' = SettledAfter(d.egress)
    /\ UNCHANGED <<ctlVars, libVars, clusterName, meshHosts, meshNodes, informer, queue, hostsCache, nodesCache, phase,
                   cleaner, pass>>

(***************************************************************************)
(* The engine                                                              *)
(***************************************************************************)

Next ==
    \/ \E n \in K8sNames, cidrs \in PodCIDRLists : K8sAdd(n, cidrs)
    \/ \E n \in K8sNames, cidrs \in PodCIDRLists : K8sUpdate(n, cidrs)
    \/ \E n \in K8sNames : K8sDelete(n)
    \/ \E n \in K8sNames : K8sDeleteMissed(n)
    \/ Tick
    \/ \E key \in K8sNames, oh \in ReadOuts, on \in ReadOuts : WorkerGet(key, oh, on)
    \/ \E ol \in ReadOuts : WorkerNode(ol)
    \/ \E oh \in ReadOuts, on \in ReadOuts : CleanupCollect(oh, on)
    \/ \E network \in Networks, ol \in ReadOuts : CleanupNode(network, ol)
    \/ \E oh \in ReadOuts, on \in ReadOuts : DeleteNodeStart(oh, on)
    \/ \E ol \in ReadOuts : DeleteNodeStep(ol)

Spec == Init /\ [][Next]_vars

(***************************************************************************)
(* The reconciler call by call, against a host that has joined two networks *)
(***************************************************************************)

\* GET /api/hosts: node-a is bound to host h1, which has joined both networks;
\* host h2 carries no K8s node's name.
TwoNetHosts ==
    << [id |-> "h1", name |-> "node-a", nodes |-> <<"u1", "u2">>],
       [id |-> "h2", name |-> "gateway", nodes |-> <<"u3">>] >>

\* GET /api/nodes.
TwoNetNodes ==
    << [id |-> "u1", hostid |-> "h1", network |-> "net1"],
       [id |-> "u2", hostid |-> "h1", network |-> "net2"],
       [id |-> "u3", hostid |-> "h2", network |-> "net1"] >>

\* The rules the mesh holds before the calls: in net1 a rule that
\* is not managed and holds u1 and u3, two owned rules of index 0 on u1 and an
\* owned rule on u3; in net2 an owned rule that holds u2 and u3.
TwoNetEgress ==
    << [id |-> 1, name |-> <<"manual">>, network |-> "net1",
        description |-> <<"x">>, range |-> "c0", nat |-> TRUE,
        nodes |-> [u \in {"u1", "u3"} |-> 100], status |-> TRUE],
       [id |-> 2, name |-> buildEgressName("node-a", 0, 1), network |-> "net1",
        description |-> buildEgressDescription(<<"a">>, 0), range |-> "c1",
        nat |-> FALSE, nodes |-> [u \in {"u1"} |-> EgressMetric], status |-> TRUE],
       [id |-> 3, name |-> buildEgressName("node-a", 0, 1), network |-> "net1",
        description |-> buildEgressDescription(<<"a">>, 0), range |-> "c1",
        nat |-> FALSE, nodes |-> [u \in {"u1"} |-> EgressMetric], status |-> TRUE],
       [id |-> 4, name |-> buildEgressName("gateway", 0, 1), network |-> "net1",
        description |-> buildEgressDescription(<<"a">>, 0), range |-> "c1",
        nat |-> FALSE, nodes |-> [u \in {"u3"} |-> EgressMetric], status |-> TRUE],
       [id |-> 5, name |-> buildEgressName("node-a", 0, 1), network |-> "net2",
        description |-> buildEgressDescription(<<"a">>, 0), range |-> "c1",
        nat |-> FALSE, nodes |-> [u \in {"u2", "u3"} |-> EgressMetric],
        status |-> TRUE] >>

\* The inputs of the calls: the node as the informer holds it, whether its key
\* is queued (ReconcileNode is due), and whether the node has just been
\* deleted (handleNodeDelete is about to call DeleteNode).
ReconcilerInit ==
    /\ CtlIdle
    /\ LibIdle
    /\ clusterName = <<"a">>
    /\ meshHosts = TwoNetHosts
    /\ meshNodes = TwoNetNodes
    /\ informer \in [K8sNames -> PodCIDRLists \cup {NoNode}]
    /\ queue \in SUBSET K8sNames
    /\ egress = TwoNetEgress
    /\ hostsCache = [data |-> <<>>, age |-> TTL]
    /\ nodesCache = [data |-> <<>>, age |-> TTL]
    /\ egressCache = [n \in Networks |-> NoEntry]
    /\ phase = "initial"
    /\ worker = IdleWorker
    /\ cleaner = IdleCleaner
    /\ deleter \in {IdleDeleter}
                   \cup { [IdleDeleter EXCEPT !.pc = "start", !.name = n] :
                          n \in { m \in K8sNames : informer[m] = NoNode } }
    /\ faults = 0
    /\ pass = NoPass
    /\ settled = Unsettled

\* The calls of the reconciler step by step, with no further event from the
\* cluster.
ReconcilerNext ==
    \/ Tick
    \/ \E key \in K8sNames, oh \in ReadOuts, on \in ReadOuts : WorkerGet(key, oh, on)
    \/ \E ol \in ReadOuts : WorkerNode(ol)
    \/ \E oh \in ReadOuts, on \in ReadOuts : CleanupCollect(oh, on)
    \/ \E network \in Networks, ol \in ReadOuts : CleanupNode(network, ol)
    \/ \E oh \in ReadOuts, on \in ReadOuts : DeleteNodeStart(oh, on)
    \/ \E ol \in ReadOuts : DeleteNodeStep(ol)

ReconcilerSpec == ReconcilerInit /\ [][ReconcilerNext]_vars

(***************************************************************************)
(* What the engine can do next, and what the mesh holds                    *)
(***************************************************************************)

\* What the next step of the worker, of the cleanup pass and of the delete
\* handler can do, over every outcome of the calls.
WorkerDids ==
    IF worker.pc # "nodes" THEN {}
    ELSE { WorkerStep(ol, outs) : ol \in ReadOuts, outs \in WorkerOuts }

CleanerDids ==
    IF cleaner.pc # "sweep" THEN {}
    ELSE UNION { { CleanerStep(n, ol, outs) : outs \in CleanerOuts(n, ol) } :
                 n \in { m \in Networks : FirstOf(cleaner.todo, m) # 0 },
                 ol \in ReadOuts }

DeleterDids ==
    IF deleter.pc # "nodes" THEN {}
    ELSE UNION { { DeleterStep(ol, outs) : outs \in DeleterOuts(ol) } :
                 ol \in ReadOuts }

EngineDids == WorkerDids \cup CleanerDids \cup DeleterDids

CallsOf(d) == { d.calls[k] : k \in 1..Len(d.calls) }

\* A K8s node that is bound: it is in the informer's cache with pod CIDRs and a
\* mesh host has its name.
Bound(n) ==
    /\ informer[n] # NoNode
    /\ Len(informer[n]) > 0
    /\ HostIndex(meshHosts, n) # 0

\* The mesh nodes of the host of a bound K8s node.
MeshNodesOf(n) ==
    { m \in { meshNodes[k] : k \in 1..Len(meshNodes) } :
        \E j \in 1..Len(meshHosts[HostIndex(meshHosts, n)].nodes) :
            meshHosts[HostIndex(meshHosts, n)].nodes[j] = m.id }

\* The positions of the mesh's owned rules of a network that reference the
\* mesh node uuid, and those among them with index i.
OwnedOf(network, uuid) ==
    { k \in 1..Len(egress) :
        /\ egress[k].network = network
        /\ Owned(egress[k], clusterName)
        /\ uuid \in DOMAIN egress[k].nodes }

OwnedAt(network, uuid, i) ==
    { k \in OwnedOf(network, uuid) : Metadata(egress[k].description).index = i }

\* Nothing is queued or in progress.
Quiet ==
    /\ phase = "running"
    /\ queue = {}
    /\ worker.pc = "idle"
    /\ cleaner.pc = "idle"
    /\ deleter.pc = "idle"

\* Every mesh node of every bound K8s node has exactly one owned rule per index
\* of the node's pod CIDRs, with that pod CIDR as its range.
Converged ==
    \A n \in K8sNames :
        Bound(n) =>
            \A m \in MeshNodesOf(n), i \in 0..(Len(informer[n]) - 1) :
                /\ Cardinality(OwnedAt(m.network, m.id, i)) = 1
                /\ \A k \in OwnedAt(m.network, m.id, i) :
                       egress[k].range = informer[n][i + 1]

(***************************************************************************)
(* Claims                                                                  *)
(***************************************************************************)

\* C1. Ownership safety: every UpdateEgress and DeleteEgress the engine issues
\* targets a rule that is owned under the configured clusterName, every
\* description written by a create or an update is itself owned under it, and
\* a rule that is not owned is neither modified nor deleted.
C1_OwnershipSafety ==
    \A d \in EngineDids :
        /\ \A c \in CallsOf(d) :
               /\ c.op \in {"update", "delete"} => Owned(c.target, clusterName)
               /\ c.op \in {"create", "update"} => Owned(c.req, clusterName)
        /\ \A k \in 1..Len(egress) :
               ~Owned(egress[k], clusterName) =>
                   \E j \in 1..Len(d.egress) : d.egress[j] = egress[k]

\* C2. Convergence: once the K8s nodes and the mesh have stopped changing, no
\* mesh call has failed, the workqueue is drained, and a cleanup pass that
\* began after that has ended (one resync period: a resync of an unchanged node
\* enqueues nothing), every mesh node of every bound K8s node has exactly one
\* owned rule per index, with the node's pod CIDR of that index as its range.
C2_Convergence ==
    (Quiet /\ faults = 0 /\ pass.state = "ended" /\ pass.calm) => Converged

\* C3. Idempotence: a ReconcileNode that follows a ReconcileNode of the same
\* node with the same pod CIDRs that returned nil, with no change of the mesh
\* in between, issues no CreateEgress, UpdateEgress or DeleteEgress.
C3_Idempotence ==
    (worker.pc = "nodes" /\ worker.again) =>
        \A d \in WorkerDids : d.calls = <<>>

\* The owned rules of the mesh that reference a mesh node no live K8s node is
\* bound to.
LiveUuids ==
    UNION { { m.id : m \in MeshNodesOf(n) } :
            n \in { k \in K8sNames : informer[k] # NoNode /\ HostIndex(meshHosts, k) # 0 } }

OrphanRules ==
    { k \in 1..Len(egress) :
        /\ Owned(egress[k], clusterName)
        /\ \E u \in DOMAIN egress[k].nodes : u \notin LiveUuids }

Duplicates ==
    { p \in (1..Len(egress)) \X (1..Len(egress)) :
        /\ p[1] < p[2]
        /\ egress[p[1]].network = egress[p[2]].network
        /\ Owned(egress[p[1]], clusterName)
        /\ Owned(egress[p[2]], clusterName)
        /\ Metadata(egress[p[1]].description).index
               = Metadata(egress[p[2]].description).index
        /\ DOMAIN egress[p[1]].nodes \cap DOMAIN egress[p[2]].nodes # {} }

\* C5. No duplicates: the mesh never holds two owned rules of one network with
\* the same index and the same mesh node in their nodes maps.
C5_NoDuplicates == Duplicates = {}

\* The owned rules of the mesh nodes of K8s node n whose index is not an index
\* of a list of len pod CIDRs.
BeyondIndex(n, len) ==
    { k \in 1..Len(egress) :
        /\ Owned(egress[k], clusterName)
        /\ Metadata(egress[k].description).index >= len
        /\ \E m \in MeshNodesOf(n) :
               m.network = egress[k].network /\ m.id \in DOMAIN egress[k].nodes }

\* ReconcileNode leaves the rules beyond the node's pod CIDRs alone.
ShrinkUntouched ==
    \A d \in WorkerDids :
        /\ \A c \in CallsOf(d) :
               /\ c.index < Len(worker.cidrs)
               /\ c.op = "update" =>
                      Metadata(c.target.description).index < Len(worker.cidrs)
        /\ \A k \in BeyondIndex(worker.key, Len(worker.cidrs)) :
               \E j \in 1..Len(d.egress) : d.egress[j] = egress[k]

\* C6. Shrinking list: ReconcileNode does not touch the owned rules whose index
\* is beyond the node's pod CIDRs, and once a cleanup pass that began with
\* nothing queued or in flight and fetched every list has ended, the mesh nodes
\* of a bound K8s node have no such rule.
C6_ShrinkingList ==
    /\ ShrinkUntouched
    /\ (Quiet /\ pass.state = "ended" /\ pass.calm /\ pass.pure) =>
           \A n \in K8sNames : Bound(n) => BeyondIndex(n, Len(informer[n])) = {}

\* C7. Self-healing: once a cleanup pass that began with nothing queued or in
\* flight has ended (a resync period after whatever was observed wrongly), no
\* rule of a bound K8s node is missing or wrong, without a change of the node's
\* pod CIDRs.
C7_SelfHealing ==
    (Quiet /\ pass.state = "ended" /\ pass.calm) => Converged

\* A read is a hit exactly when the entry is there and younger than the TTL.
HitBound(hit, present, age) == hit <=> (present /\ age < TTL)

\* C8. Cache staleness bound: a ListHosts, ListNodes or ListEgress(network) is
\* served from the cache only when the entry's age is less than TTL, and then
\* returns the entry; otherwise the underlying client is called, and the read
\* returns what the mesh returns now and stores it with age 0, or fails.
C8_CacheStalenessBound ==
    \A out \in ReadOuts :
        /\ \A r \in { [l |-> ListHosts(out), c |-> hostsCache, now |-> meshHosts],
                      [l |-> ListNodes(out), c |-> nodesCache, now |-> meshNodes] } :
               /\ HitBound(r.l.read.hit, TRUE, r.c.age)
               /\ r.l.read.hit => ~r.l.err /\ r.l.val = r.c.data /\ r.l.cache = r.c
               /\ (~r.l.read.hit /\ out = "ok") =>
                      /\ ~r.l.err
                      /\ r.l.val = r.now
                      /\ r.l.cache = [data |-> r.now, age |-> 0]
               /\ (~r.l.read.hit /\ out # "ok") => r.l.err /\ r.l.cache = r.c
        /\ \A n \in Networks :
               LET l == ListEgress(egressCache, egress, n, out)
                   c == egressCache[n]
               IN  /\ HitBound(l.read.hit, c.present, c.age)
                   /\ l.read.hit => ~l.err /\ l.val = c.list /\ l.ecache = egressCache
                   /\ (~l.read.hit /\ out = "ok") =>
                          /\ ~l.err
                          /\ l.val = ServerListEgress(egress, n)
                          /\ l.ecache[n] = [present |-> TRUE, age |-> 0,
                                            list |-> ServerListEgress(egress, n)]
                   /\ (~l.read.hit /\ out # "ok") =>
                          l.err /\ l.ecache = egressCache

\* The worker is about to list a network whose cache entry has reached the TTL
\* and no longer holds what the mesh holds.
C8_Witness ==
    /\ worker.pc = "nodes"
    /\ egressCache[Head(worker.todo).network].present
    /\ egressCache[Head(worker.todo).network].age = TTL
    /\ egressCache[Head(worker.todo).network].list
           # ServerListEgress(egress, Head(worker.todo).network)
    /\ \E d \in WorkerDids : ~d.read.hit /\ ~d.read.err /\ d.list # egressCache[Head(worker.todo).network].list

\* The positions in a list of the owned rules with index i that reference the
\* mesh node uuid: the matches for (uuid, i).
MatchesIn(list, uuid, i) ==
    { k \in 1..Len(list) :
        /\ Owned(list[k], clusterName)
        /\ Metadata(list[k].description).index = i
        /\ uuid \in DOMAIN list[k].nodes }

FirstMatch(list, uuid, i) ==
    CHOOSE k \in MatchesIn(list, uuid, i) :
        \A j \in MatchesIn(list, uuid, i) : k <= j

\* The calls of a step for index i, in order.
CallsAt(d, i) == SelectSeq(d.calls, LAMBDA c : c.index = i)

\* The step got to index i: the list call and every write before succeeded.
ReachedIndex(d, i) ==
    /\ ~d.read.err
    /\ \A k \in 1..Len(d.calls) : d.calls[k].index < i => d.calls[k].out = "ok"

\* The step finds a match for index i whose range is not the pod CIDR.
ChangeCase(d, i) ==
    /\ ReachedIndex(d, i)
    /\ MatchesIn(d.list, Head(worker.todo).id, i) # {}
    /\ d.list[FirstMatch(d.list, Head(worker.todo).id, i)].range
           # worker.cidrs[i + 1]

\* C9. CIDR change preserves identity: when reconcileNodeInNetwork finds a
\* match for (mesh node, i) whose range is not podCIDRs[i], it issues for that
\* index exactly one call, an UpdateEgress that carries the id and the network
\* of the match and podCIDRs[i] as its range; no CreateEgress, no DeleteEgress.
C9_ChangePreservesIdentity ==
    \A d \in WorkerDids, i \in 0..(Len(worker.cidrs) - 1) :
        ChangeCase(d, i) =>
            LET m == d.list[FirstMatch(d.list, Head(worker.todo).id, i)]
                at == CallsAt(d, i)
            IN  /\ Len(at) = 1
                /\ at[1].op = "update"
                /\ at[1].target = m
                /\ at[1].req.id = m.id
                /\ at[1].req.network = m.network
                /\ at[1].req.range = worker.cidrs[i + 1]

\* The worker is about to update a rule in place, and the mesh takes the update.
C9_Witness ==
    /\ worker.pc = "nodes"
    /\ \E d \in WorkerDids, i \in 0..(Len(worker.cidrs) - 1) :
           /\ ChangeCase(d, i)
           /\ CallsAt(d, i)[1].out = "ok"
           /\ \E k \in 1..Len(d.egress) :
                  /\ d.egress[k].id = CallsAt(d, i)[1].target.id
                  /\ d.egress[k].range = worker.cidrs[i + 1]
                  /\ d.egress[k].range # CallsAt(d, i)[1].target.range

\* The step reconciles two pod CIDRs, finds the rule of index 0 with the first
\* as its range and no rule of index 1, and none of its calls fails.
DualStackCase(d) ==
    /\ Len(worker.cidrs) = 2
    /\ ~d.read.err
    /\ ~d.err
    /\ MatchesIn(d.list, Head(worker.todo).id, 0) # {}
    /\ d.list[FirstMatch(d.list, Head(worker.todo).id, 0)].range = worker.cidrs[1]
    /\ MatchesIn(d.list, Head(worker.todo).id, 1) = {}

\* The name the spec gives the rule of index i among n, written out.
NameOf(node, i, n) == <<node, " pods (", Digits[i + 2], "/", Digits[n + 1], ")">>

\* The step creates the rule of index 1 among two.
CreatesSecond(d, c) ==
    /\ c.op = "create"
    /\ c.index = 1
    /\ c.req.network = Head(worker.todo).network
    /\ c.req.range = worker.cidrs[2]
    /\ c.req.name = NameOf(worker.key, 1, 2)
    /\ Metadata(c.req.description).index = 1

\* C10 as the spec states it. Dual-stack add: with the rule of index 0 in place
\* and podCIDRs grown to two, the reconcile issues one UpdateEgress on the rule
\* of index 0 that sets its name to "<node> pods (1/2)" and leaves its range,
\* and one CreateEgress for index 1 with range c1 and name "<node> pods (2/2)".
C10_Original ==
    \A d \in WorkerDids :
        DualStackCase(d) =>
            /\ Len(d.calls) = 2
            /\ d.calls[1].op = "update"
            /\ d.calls[1].target
                   = d.list[FirstMatch(d.list, Head(worker.todo).id, 0)]
            /\ d.calls[1].req.name = NameOf(worker.key, 0, 2)
            /\ d.calls[1].req.range = d.calls[1].target.range
            /\ CreatesSecond(d, d.calls[2])

\* C10, amended. Dual-stack add: with the rule of index 0 in place and podCIDRs
\* grown to two, the reconcile issues one call only, a CreateEgress for index 1
\* with range c1 and name "<node> pods (2/2)"; the rule of index 0 is not
\* written and every rule the mesh held is held as it was.
C10_DualStackAdd ==
    \A d \in WorkerDids :
        DualStackCase(d) =>
            /\ Len(d.calls) = 1
            /\ CreatesSecond(d, d.calls[1])
            /\ \A k \in 1..Len(egress) : d.egress[k] = egress[k]

\* The worker is about to add the second rule next to a rule of index 0 that
\* keeps the name "<node> pods (1/1)".
C10_Witness ==
    /\ worker.pc = "nodes"
    /\ \E d \in WorkerDids :
           /\ DualStackCase(d)
           /\ Len(d.egress) = Len(egress) + 1
           /\ d.list[FirstMatch(d.list, Head(worker.todo).id, 0)].name
                  = NameOf(worker.key, 0, 1)
           /\ \E k \in 1..Len(d.egress) :
                  d.egress[k] = d.list[FirstMatch(d.list, Head(worker.todo).id, 0)]

\* The step gets to index i and its list holds no match for it.
CreateCase(d, i) ==
    /\ ReachedIndex(d, i)
    /\ MatchesIn(d.list, Head(worker.todo).id, i) = {}

\* C11. First-time creation: when reconcileNodeInNetwork gets to index i and no
\* rule of the network's list is owned, has index i and holds the mesh node, it
\* issues for that index exactly one call, a CreateEgress with the mesh node's
\* network and no id; with a match in the list it issues no CreateEgress for
\* that index.
C11_FirstTimeCreation ==
    \A d \in WorkerDids, i \in 0..(Len(worker.cidrs) - 1) :
        /\ CreateCase(d, i) =>
               /\ Len(CallsAt(d, i)) = 1
               /\ CallsAt(d, i)[1].op = "create"
               /\ CallsAt(d, i)[1].req.network = Head(worker.todo).network
               /\ CallsAt(d, i)[1].req.id = 0
        /\ MatchesIn(d.list, Head(worker.todo).id, i) # {} =>
               \A c \in CallsOf(d) : c.index = i => c.op # "create"

\* The worker is about to create the rule of an index next to a rule of another
\* index of the same mesh node, and the mesh takes the create.
C11_Witness ==
    /\ worker.pc = "nodes"
    /\ \E d \in WorkerDids, i \in 0..(Len(worker.cidrs) - 1) :
           /\ CreateCase(d, i)
           /\ \E j \in 0..(Len(worker.cidrs) - 1) :
                  MatchesIn(d.list, Head(worker.todo).id, j) # {}
           /\ CallsAt(d, i)[1].out = "ok"
           /\ Len(d.egress) = Len(egress) + 1

\* The description the spec gives a rule of index i under cluster name cn,
\* written out.
DescriptionOf(cn, i) ==
    <<"Managed by kaput-not (DO NOT EDIT)", ":", " ">>
        \o (IF cn = <<>> THEN <<>> ELSE <<"cluster", "=">> \o cn \o <<" ">>)
        \o <<"index", "=", Digits[i + 1]>>

\* C12. Request fields: every CreateEgress and UpdateEgress the engine issues
\* comes from a reconcile and has nat = false, status = true, nodes = {mesh
\* node: 500}, range = podCIDRs[i], name = "<nodeName> pods (i+1/N)" with N the
\* number of pod CIDRs, and the description of index i in the form of the
\* configured cluster scope.
C12_RequestFields ==
    /\ \A d \in CleanerDids \cup DeleterDids : \A c \in CallsOf(d) :
           c.op = "delete"
    /\ \A d \in WorkerDids : \A c \in CallsOf(d) :
           c.op \in {"create", "update"} =>
               /\ c.index \in 0..(Len(worker.cidrs) - 1)
               /\ c.req.nat = FALSE
               /\ c.req.status = TRUE
               /\ c.req.nodes = [u \in {Head(worker.todo).id} |-> 500]
               /\ c.req.range = worker.cidrs[c.index + 1]
               /\ c.req.name = NameOf(worker.key, c.index, Len(worker.cidrs))
               /\ c.req.description = DescriptionOf(clusterName, c.index)

\* The worker is about to issue an update for index 0 and a create for index 1
\* of a node with two pod CIDRs under a cluster name.
C12_Witness ==
    /\ worker.pc = "nodes"
    /\ clusterName # <<>>
    /\ \E d \in WorkerDids :
           /\ Len(d.calls) = 2
           /\ d.calls[1].op = "update" /\ d.calls[1].out = "ok"
           /\ d.calls[2].op = "create" /\ d.calls[2].out = "ok"

\* C13. Description round trip: for the configured clusterName and every index
\* i, the description buildEgressDescription emits for i parses as managed,
\* with cluster = clusterName and index = i.
C13_RoundTrip ==
    \A i \in 0..MaxIndex :
        LET m == parseEgressDescription(buildEgressDescription(clusterName, i))
        IN  /\ m.managed
            /\ m.cluster = clusterName
            /\ m.index = i

(***************************************************************************)
(* The CachedClient call by call: the lock, the readers and the writers    *)
(***************************************************************************)

CacheKeys == {"hosts", "nodes"} \cup Networks

\* The mesh node a rule of a network is written for.
LibNode(network) == IF network = "net1" THEN "u1" ELSE "u2"

LibReq(network, id, range) ==
    EgressReq(id, buildEgressName("node-a", 0, 1), network,
              buildEgressDescription(<<>>, 0), range, LibNode(network))

\* The mesh holds one rule in each network.
LibEgress ==
    << RuleOfReq(LibReq("net1", 0, "c0"), 1), RuleOfReq(LibReq("net2", 0, "c0"), 2) >>

\* time.Since(fetchedAt) < c.ttl for the entry of a key (an egress entry has
\* also to exist).
KeyFresh(key) ==
    IF key = "hosts" THEN HostsFresh
    ELSE IF key = "nodes" THEN NodesFresh
    ELSE EgressFresh(key)

\* A locked section without the second look at the entry: C16 as amended does
\* not hold of it.
NoDoubleCheck(key) == FALSE

\* The second look at the entry, under the write lock.
DoubleCheck(key) == KeyFresh(key)

CallDone(op, key, how, err, dropped) ==
    [op |-> op, key |-> key, how |-> how, err |-> err, dropped |-> dropped]

\* ListHosts, ListNodes, ListEgress(network): the fast path under the read lock,
\* which no goroutine gets while another holds the write lock.
ReadBegin(c, key) ==
    /\ callers[c].pc = "idle"
    /\ begun < MaxLibCalls
    /\ begun' = begun + 1
    /\ mu = 0
    /\ IF KeyFresh(key)
       THEN /\ done' = CallDone("list", key, "fast", FALSE, {})
            /\ callers' = callers
       ELSE /\ callers' = [callers EXCEPT ![c] =
                              [IdleCaller EXCEPT !.pc = "wait", !.op = "list",
                                                 !.key = key]]
            /\ done' = done
    /\ UNCHANGED <<ctlVars, engineVars, egress, hostsCache, nodesCache, egressCache, mu,
                   token, http>>

\* The reader gets the write lock and looks at the entry again: it returns the
\* entry, or it starts the call of the underlying client with the lock held.
ReadLock(c) ==
    /\ callers[c].pc = "wait"
    /\ mu = 0
    /\ IF DoubleCheck(callers[c].key)
       THEN /\ done' = CallDone("list", callers[c].key, "checked", FALSE, {})
            /\ callers' = [callers EXCEPT ![c] = IdleCaller]
            /\ mu' = mu
       ELSE /\ callers' = [callers EXCEPT ![c].pc = "fetch"]
            /\ mu' = c
            /\ done' = done
    /\ UNCHANGED <<begun, ctlVars, engineVars, egress, hostsCache, nodesCache, egressCache,
                   token, http>>

\* The mesh answers the reader's GET for a network's rules, at some moment
\* between the call of the underlying client and its return.
FetchServed(c) ==
    /\ callers[c].pc = "fetch"
    /\ callers[c].key \in Networks
    /\ ~callers[c].served
    /\ callers' = [callers EXCEPT ![c].served = TRUE,
                                  ![c].seen = ServerListEgress(egress, callers[c].key)]
    /\ UNCHANGED <<begun, done, mu, ctlVars, engineVars, egress, hostsCache,
                   nodesCache, egressCache, token, http>>

\* Who holds a list fetched before a writer's change once reader c has
\* returned: with ok the cache entry is the list c was answered with.
Stored(unseen, c, ok) ==
    IF ~ok THEN unseen \ {c}
    ELSE IF c \in unseen THEN (unseen \ {c}) \cup {0}
    ELSE unseen \ {0}

\* Who holds a list of the network fetched before a change that is made now.
Holders(network) ==
    (IF egressCache[network].present THEN {0} ELSE {})
        \cup { d \in Callers : /\ callers[d].pc = "fetch"
                                /\ callers[d].key = network
                                /\ callers[d].served }

\* The readers that wait for the key another reader has just fetched.
Refreshed(c, key, ok) ==
    [d \in Callers |->
        IF d = c THEN IdleCaller
        ELSE IF ok /\ callers[d].pc = "wait" /\ callers[d].key = key
        THEN [callers[d] EXCEPT !.refreshed = TRUE]
        ELSE IF callers[d].pc = "inval" /\ callers[d].net = key
        THEN [callers[d] EXCEPT !.unseen = Stored(@, c, ok)]
        ELSE callers[d]]

\* The underlying call returns: the reader stores the list and the time, and
\* unlocks.
ReadFetched(c, out) ==
    /\ callers[c].pc = "fetch"
    /\ mu = c
    /\ LET key == callers[c].key
           h   == ListHosts(out)
           n   == ListNodes(out)
           e   == ListEgress(egressCache,
                             IF callers[c].served THEN callers[c].seen ELSE egress,
                             key, out)
       IN  /\ hostsCache' = IF key = "hosts" THEN h.cache ELSE hostsCache
           /\ nodesCache' = IF key = "nodes" THEN n.cache ELSE nodesCache
           /\ egressCache' = IF key \in Networks THEN e.ecache ELSE egressCache
           /\ done' = CallDone("list", key, "fetched", out # "ok", {})
           /\ callers' = Refreshed(c, key, out = "ok")
    /\ mu' = 0
    /\ UNCHANGED <<begun, ctlVars, engineVars, egress, token, http>>

\* CreateEgress, UpdateEgress: the call of the underlying client. A failed call
\* returns at once; after a successful one the writer goes for the lock.
WriteCall(c, op, network, id, out) ==
    /\ callers[c].pc = "idle"
    /\ begun < MaxLibCalls
    /\ begun' = begun + 1
    /\ op = "create" =>
           /\ id = 0
           /\ Len(egress) < MaxLibRules
           /\ FreshId([egress |-> egress, ecache |-> egressCache]) <= MaxLibIds
    /\ op = "update" =>
           \E k \in 1..Len(egress) : egress[k].id = id /\ egress[k].network = network
    /\ LET req == LibReq(network, id, "c1")
           w   == [egress |-> egress, ecache |-> egressCache]
       IN  egress' = IF out \notin {"ok", "lost"} THEN egress
                     ELSE IF op = "create" THEN ServerCreate(egress, req, FreshId(w))
                     ELSE ServerUpdate(egress, req)
    /\ IF out = "ok"
       THEN /\ callers' = [callers EXCEPT ![c] =
                              [IdleCaller EXCEPT !.pc = "inval", !.op = op,
                                                 !.key = network,
                                                 !.net = network,
                                                 !.unseen = Holders(network)]]
            /\ done' = done
       ELSE /\ done' = CallDone(op, network, "", TRUE, {})
            /\ callers' = callers
    /\ UNCHANGED <<ctlVars, engineVars, hostsCache, nodesCache, egressCache, mu, token, http>>

\* DeleteEgress: the call of the underlying client.
DeleteCall(c, id, out) ==
    /\ callers[c].pc = "idle"
    /\ begun < MaxLibCalls
    /\ begun' = begun + 1
    /\ id \in RuleIds(egress)
    /\ egress' = IF out \in {"ok", "lost"} THEN ServerDelete(egress, id) ELSE egress
    /\ IF out = "ok"
       THEN /\ \E k \in 1..Len(egress) :
                   /\ egress[k].id = id
                   /\ callers' = [callers EXCEPT ![c] =
                          [IdleCaller EXCEPT !.pc = "inval", !.op = "delete",
                                             !.net = egress[k].network,
                                             !.unseen = Holders(egress[k].network)]]
            /\ done' = done
       ELSE /\ done' = CallDone("delete", "", "", TRUE, {})
            /\ callers' = callers
    /\ UNCHANGED <<ctlVars, engineVars, hostsCache, nodesCache, egressCache, mu, token, http>>

\* The networks that have an egress entry.
Present(ec) == { n \in Networks : ec[n].present }

\* Who still holds a list fetched before a writer's change when the cache is
\* ec: a dropped entry is held no longer.
Kept(unseen, network, ec) ==
    IF ec[network].present THEN unseen ELSE unseen \ {0}

\* The writer gets the lock, drops the entries and returns.
WriteInvalidate(c) ==
    /\ callers[c].pc = "inval"
    /\ mu = 0
    /\ egressCache' = IF callers[c].op = "delete" THEN InvalidateAll(egressCache)
                      ELSE InvalidateNetwork(egressCache, callers[c].key)
    /\ done' = CallDone(callers[c].op, callers[c].key, "", FALSE,
                        Present(egressCache) \ Present(egressCache'))
    /\ callers' = [d \in Callers |->
                       IF d = c THEN IdleCaller
                       ELSE IF callers[d].pc = "inval"
                       THEN [callers[d] EXCEPT !.unseen = Kept(@, callers[d].net, egressCache')]
                       ELSE callers[d]]
    /\ UNCHANGED <<begun, ctlVars, engineVars, egress, hostsCache, nodesCache, mu, token, http>>

\* The library by itself: no cluster, the mesh with a rule in each network.
LibInit ==
    /\ CtlIdle
    /\ mu = 0
    /\ callers = [c \in Callers |-> IdleCaller]
    /\ done = NoCall
    /\ begun = 0
    /\ token = ""
    /\ http = IdleHttp
    /\ clusterName = <<>>
    /\ meshHosts = Hosts
    /\ meshNodes = MeshNodes
    /\ informer = [n \in K8sNames |-> NoNode]
    /\ queue = {}
    /\ egress = LibEgress
    /\ hostsCache = [data |-> <<>>, age |-> TTL]
    /\ nodesCache = [data |-> <<>>, age |-> TTL]
    /\ egressCache = [n \in Networks |-> NoEntry]
    /\ phase = "running"
    /\ worker = IdleWorker
    /\ cleaner = IdleCleaner
    /\ deleter = IdleDeleter
    /\ faults = 0
    /\ pass = NoPass
    /\ settled = Unsettled

CacheNext ==
    \/ \E c \in Callers, key \in CacheKeys : ReadBegin(c, key)
    \/ \E c \in Callers : ReadLock(c)
    \/ \E c \in Callers : FetchServed(c)
    \/ \E c \in Callers, out \in ReadOuts : ReadFetched(c, out)
    \/ \E c \in Callers, op \in {"create", "update"}, network \in Networks, id \in 0..MaxLibIds, out \in WriteOuts : WriteCall(c, op, network, id, out)
    \/ \E c \in Callers, id \in 1..MaxLibIds, out \in WriteOuts : DeleteCall(c, id, out)
    \/ \E c \in Callers : WriteInvalidate(c)
    \/ Tick

CacheSpec == LibInit /\ [][CacheNext]_vars

\* C14. Invalidation policy: when a successful CreateEgress or UpdateEgress has
\* invalidated, the egress entry of the request's network is absent; when a
\* successful DeleteEgress has invalidated, no network has an egress entry; and
\* a ListEgress of a network without an entry calls the underlying client.
C14_InvalidationPolicy ==
    [][ /\ \A c \in Callers :
               WriteInvalidate(c) =>
                   IF callers[c].op = "delete"
                   THEN \A n \in Networks : ~egressCache'[n].present
                   ELSE /\ callers[c].op \in {"create", "update"}
                        /\ ~egressCache'[callers[c].key].present
        /\ \A n \in Networks :
               ~egressCache[n].present =>
                   /\ ~KeyFresh(n)
                   /\ ~ListEgress(egressCache, egress, n, "ok").read.hit ]_vars

\* A successful DeleteEgress has just dropped the entries of both networks.
C14_Witness ==
    /\ done.op = "delete"
    /\ ~done.err
    /\ done.dropped = Networks

\* C15. Frame: no step of a CreateEgress, UpdateEgress or DeleteEgress changes
\* the hosts or the nodes cache, list or age; the call of the underlying client
\* changes no cache at all; and the invalidation of a create or an update
\* leaves the egress entry of every other network as it is.
C15_WriteFrame ==
    [][ \A c \in Callers :
            /\ ( \/ \E op \in {"create", "update"}, network \in Networks,
                       id \in 0..MaxLibIds, out \in WriteOuts :
                           WriteCall(c, op, network, id, out)
                 \/ \E id \in 1..MaxLibIds, out \in WriteOuts : DeleteCall(c, id, out) )
                   => /\ hostsCache' = hostsCache
                      /\ nodesCache' = nodesCache
                      /\ egressCache' = egressCache
            /\ WriteInvalidate(c) =>
                   /\ hostsCache' = hostsCache
                   /\ nodesCache' = nodesCache
                   /\ callers[c].op # "delete" =>
                          \A n \in Networks \ {callers[c].key} :
                              egressCache'[n] = egressCache[n] ]_vars

\* A successful UpdateEgress for net1 has just dropped net1's entry while the
\* hosts cache and net2's entry are filled.
C15_Witness ==
    /\ done.op = "update"
    /\ ~done.err
    /\ done.key = "net1"
    /\ done.dropped = {"net1"}
    /\ egressCache["net2"].present
    /\ hostsCache.data # <<>>

\* At most one call of the underlying client is in flight for a key after the
\* step.
SingleFlight ==
    \A key \in CacheKeys :
        Cardinality({ c \in Callers : callers'[c].pc = "fetch"
                                         /\ callers'[c].key = key }) <= 1

\* C16 as the spec states it. Single-flight refetch: at most one refetch is in
\* flight per cache key, and a reader that waited while another reader
\* refetched its key returns the entry instead of fetching again.
C16_Original ==
    [][ /\ SingleFlight
        /\ \A c \in Callers :
               (ReadLock(c) /\ callers[c].refreshed) =>
                   /\ callers'[c].pc = "idle"
                   /\ done'.how = "checked" ]_vars

\* C16, amended. Single-flight refetch: at most one refetch is in flight per
\* cache key, and a reader that waited while another reader refetched its key
\* and finds the entry still there and within the TTL when it gets the lock
\* returns the entry instead of fetching again: no call of the underlying
\* client begins and the caches stay as they are.
C16_SingleFlight ==
    [][ /\ SingleFlight
        /\ \A c \in Callers :
               (ReadLock(c) /\ callers[c].refreshed /\ KeyFresh(callers[c].key)) =>
                   /\ callers'[c].pc = "idle"
                   /\ done'.how = "checked"
                   /\ mu' = 0
                   /\ hostsCache' = hostsCache
                   /\ nodesCache' = nodesCache
                   /\ egressCache' = egressCache ]_vars

\* A reader that found its entry stale on the fast path has returned it from
\* the second look: another reader fetched it in between.
C16_Witness ==
    /\ done.op = "list"
    /\ done.how = "checked"
    /\ done.key \in Networks

(***************************************************************************)
(* The HTTPClient: the token, doRequest and the checks of each method      *)
(***************************************************************************)

MeshOps == {"listHosts", "listNodes", "listEgress", "createEgress",
            "updateEgress", "deleteEgress"}

\* The Content-Type headers a response comes with, as the parts of the header.
ContentTypes ==
    { <<"application/json">>, <<"application/json", "; charset=utf-8">>,
      <<"text/html">>, <<>> }

\* What the mesh, or whatever answers in its place, can send: any of these
\* statuses with any header and with a body that is a JSON object (with its
\* Code and its AuthToken, 0 and "" when it has none), a JSON array or no JSON.
Responses ==
    { r \in [status : {200, 201, 204, 401, 500}, ctype : ContentTypes,
             shape : {"object", "array", "none"}, code : {0, 200, 201, 500},
             authtoken : {"", "t"}] :
        r.shape # "object" => r.code = 0 /\ r.authtoken = "" }

\* What client.Do returns: a response, or an error and no response.
DoOutcomes == Responses \cup {NoResponse}

\* strings.Contains(contentType, "application/json").
ContainsJSON(ctype) == \E k \in 1..Len(ctype) : ctype[k] = "application/json"

\* The checks of a method that decodes an object: the status, the header, the
\* decoding, the Code.
CheckObject(resp, statuses, codes) ==
    IF resp.status \notin statuses THEN "status"
    ELSE IF ~ContainsJSON(resp.ctype) THEN "ctype"
    ELSE IF resp.shape # "object" THEN "decode"
    ELSE IF resp.code \notin codes THEN "code"
    ELSE "ok"

\* The checks of a method that decodes an array.
CheckArray(resp) ==
    IF resp.status # 200 THEN "status"
    ELSE IF ~ContainsJSON(resp.ctype) THEN "ctype"
    ELSE IF resp.shape # "array" THEN "decode"
    ELSE "ok"

\* Authenticate, after client.Do.
AuthenticateCheck(resp) ==
    IF resp = NoResponse THEN "request"
    ELSE IF CheckObject(resp, {200}, {0, 200}) # "ok"
    THEN CheckObject(resp, {200}, {0, 200})
    ELSE IF resp.authtoken = "" THEN "notoken"
    ELSE "ok"

\* The six methods, after doRequest has returned a response.
MethodCheck(op, resp) ==
    IF op \in {"listHosts", "listNodes"} THEN CheckArray(resp)
    ELSE IF op = "listEgress" THEN CheckObject(resp, {200}, {0, 200})
    ELSE IF op = "createEgress" THEN CheckObject(resp, {200, 201}, {0, 200, 201})
    ELSE IF op = "updateEgress" THEN CheckObject(resp, {200}, {0, 200})
    ELSE IF resp.status \notin {200, 204} THEN "status"
    ELSE "ok"

\* A doRequest that sends the request again although the re-authentication
\* failed: C17 does not hold of it.
ReauthNextAlways(r) == "retry"

\* doRequest after the re-authentication: the retry, or the error.
ReauthNext(r) == IF r = "ok" THEN "retry" ELSE "idle"

HttpDone(result, resp) ==
    [http EXCEPT !.pc = "idle", !.result = result, !.checked = resp]

\* Authenticate, called by itself (at startup).
HttpAuthenticate(resp) ==
    /\ http.pc = "idle"
    /\ token' = IF AuthenticateCheck(resp) = "ok" THEN resp.authtoken ELSE token
    /\ http' = [IdleHttp EXCEPT !.op = "authenticate", !.checked = resp,
                                !.result = AuthenticateCheck(resp)]
    /\ UNCHANGED <<ctlVars, engineVars, egress, hostsCache, nodesCache, egressCache, mu,
                   callers, done, begun>>

\* A method begins: doRequest, getToken with a token in the slot or without.
HttpCall(op) ==
    /\ http.pc = "idle"
    /\ http' = [IdleHttp EXCEPT !.op = op,
                                !.pc = IF token = "" THEN "auth" ELSE "send"]
    /\ UNCHANGED <<ctlVars, engineVars, egress, hostsCache, nodesCache, egressCache, mu,
                   callers, done, begun, token>>

\* getToken's Authenticate.
HttpGetToken(resp) ==
    /\ http.pc = "auth"
    /\ token' = IF AuthenticateCheck(resp) = "ok" THEN resp.authtoken ELSE token
    /\ http' = IF AuthenticateCheck(resp) = "ok" THEN [http EXCEPT !.pc = "send"]
               ELSE HttpDone("token", NoResponse)
    /\ UNCHANGED <<ctlVars, engineVars, egress, hostsCache, nodesCache, egressCache, mu,
                   callers, done, begun>>

\* The request is sent: an error, a 401, or a response for the method to check.
HttpSend(resp) ==
    /\ http.pc = "send"
    /\ \E h \in {[http EXCEPT !.sends = @ + 1, !.first = resp.status]} :
         http' = IF resp = NoResponse
                 THEN [h EXCEPT !.pc = "idle", !.result = "request"]
                 ELSE IF resp.status = 401 THEN [h EXCEPT !.pc = "reauth"]
                 ELSE [h EXCEPT !.pc = "idle", !.checked = resp,
                                !.result = MethodCheck(http.op, resp)]
    /\ UNCHANGED <<ctlVars, engineVars, egress, hostsCache, nodesCache, egressCache, mu,
                   callers, done, begun, token>>

\* The re-authentication after a 401.
HttpReauth(resp) ==
    /\ http.pc = "reauth"
    /\ token' = IF AuthenticateCheck(resp) = "ok" THEN resp.authtoken ELSE token
    /\ \E r \in {AuthenticateCheck(resp)} :
         http' = [http EXCEPT !.reauths = @ + 1,
                              !.reauth = IF r = "ok" THEN "ok" ELSE "failed",
                              !.pc = ReauthNext(r),
                              !.result = IF ReauthNext(r) = "idle" THEN "reauth"
                                         ELSE @]
    /\ UNCHANGED <<ctlVars, engineVars, egress, hostsCache, nodesCache, egressCache, mu,
                   callers, done, begun>>

\* The request is sent again; its response goes to the method whatever its
\* status.
HttpRetry(resp) ==
    /\ http.pc = "retry"
    /\ \E h \in {[http EXCEPT !.sends = @ + 1]} :
         http' = IF resp = NoResponse
                 THEN [h EXCEPT !.pc = "idle", !.result = "retry"]
                 ELSE [h EXCEPT !.pc = "idle", !.checked = resp,
                                !.result = MethodCheck(http.op, resp)]
    /\ UNCHANGED <<ctlVars, engineVars, egress, hostsCache, nodesCache, egressCache, mu,
                   callers, done, begun, token>>

HttpNext ==
    \/ \E resp \in DoOutcomes : HttpAuthenticate(resp)
    \/ \E op \in MeshOps : HttpCall(op)
    \/ \E resp \in DoOutcomes : HttpGetToken(resp)
    \/ \E resp \in DoOutcomes : HttpSend(resp)
    \/ \E resp \in DoOutcomes : HttpReauth(resp)
    \/ \E resp \in DoOutcomes : HttpRetry(resp)

HttpSpec == LibInit /\ [][HttpNext]_vars

\* C17. Unauthorized recovery: a mesh call whose request is answered with 401
\* re-authenticates exactly once and sends the request exactly once more; the
\* call succeeds if and only if the response to the retry passes the method's
\* checks, so a second 401 is an error with no further retry; and when the
\* re-authentication fails the request is not sent again and the call fails.
C17_UnauthorizedRecovery ==
    /\ http.sends <= 2
    /\ http.reauths <= 1
    /\ http.first # 401 => (http.reauths = 0 /\ http.sends <= 1)
    /\ (http.pc = "idle" /\ http.first = 401) =>
           /\ http.reauths = 1
           /\ http.reauth = "failed" => (http.sends = 1 /\ http.result = "reauth")
           /\ http.reauth = "ok" =>
                  /\ http.sends = 2
                  /\ http.checked # NoResponse =>
                         http.result = MethodCheck(http.op, http.checked)
                  /\ http.checked = NoResponse => http.result = "retry"
                  /\ http.checked.status = 401 => http.result = "status"

\* A ListEgress got a 401, re-authenticated, and its retry succeeded.
C17_Witness ==
    /\ http.pc = "idle"
    /\ http.op = "listEgress"
    /\ http.first = 401
    /\ http.reauth = "ok"
    /\ http.sends = 2
    /\ http.result = "ok"

\* The three tiers of the spec, for a response.
Tier1(resp) == resp.status \in 200..299

Tier2(resp) == ContainsJSON(resp.ctype)

Tier3(resp) == resp.shape = "object" => (resp.code = 0 \/ resp.code \in 200..299)

\* C18. Response validation: a call of authenticate, listHosts, listNodes,
\* listEgress, createEgress, updateEgress or deleteEgress succeeds only on a
\* response that passes the three tiers (status in the success band,
\* Content-Type with application/json, Code zero or a success code), and the
\* tiers are applied in that order.
C18_ThreeTierValidation ==
    (http.pc = "idle" /\ http.checked # NoResponse) =>
        /\ http.result = "ok" =>
               Tier1(http.checked) /\ Tier2(http.checked) /\ Tier3(http.checked)
        /\ http.result = "ctype" => Tier1(http.checked)
        /\ http.result \in {"decode", "code"} =>
               Tier1(http.checked) /\ Tier2(http.checked)

\* The hosts list is obtained (from the cache or from the mesh) and no host in
\* it has the name.
HostMissing(name, oh) ==
    LET l == ListHosts(oh)
    IN  ~l.err /\ HostIndex(l.val, name) = 0

\* C19. Host-not-found is silent success: a ReconcileNode or DeleteNode whose
\* hosts list is obtained and holds no host of the node's name returns no error
\* (the worker forgets the key), makes no further call and leaves the mesh's
\* rules as they are.
C19_HostNotFoundSilent ==
    [][ /\ \A key \in K8sNames, oh \in ReadOuts, on \in ReadOuts :
               (WorkerGet(key, oh, on) /\ HostMissing(key, oh)) =>
                   /\ egress' = egress
                   /\ worker' = IdleWorker
                   /\ key \notin queue'
        /\ \A oh \in ReadOuts, on \in ReadOuts :
               (DeleteNodeStart(oh, on) /\ HostMissing(deleter.name, oh)) =>
                   /\ ~HostNodes(deleter.name, oh, on).err
                   /\ Len(HostNodes(deleter.name, oh, on).reads) = 1
                   /\ egress' = egress
                   /\ deleter' = IdleDeleter ]_vars

\* No host has the name of node-a, node-a is in the informer's cache with pod
\* CIDRs, and the worker has run ReconcileNode for it with no failed call and
\* forgotten the key.
C19_Witness ==
    /\ meshHosts = OtherHosts
    /\ phase = "running"
    /\ informer["node-a"] \in {<<"c0">>, <<"c0", "c1">>}
    /\ "node-a" \notin queue
    /\ worker.pc = "idle"
    /\ faults = 0

\* The reads of a host lookup and whether one of them failed.
ReadFailed(h) == \E k \in 1..Len(h.reads) : h.reads[k].err

\* C20. No error swallowed: every step of ReconcileNode, DeleteNode and
\* CleanupOrphanedEgresses in which a call of the mesh fails ends with an error:
\* the host lookup with any failed hosts or nodes listing, and
\* reconcileNodeInNetwork and deleteNodeFromNetwork with any failed ListEgress,
\* CreateEgress, UpdateEgress or DeleteEgress.
C20_NoErrorSwallowed ==
    /\ \A d \in EngineDids :
           (d.read.err \/ \E c \in CallsOf(d) : c.out # "ok") => d.err
    /\ \A name \in K8sNames, oh \in ReadOuts, on \in ReadOuts :
           LET h == HostNodes(name, oh, on)
           IN  (Drawn(HostsFresh, oh) /\ Drawn(~h.listed \/ NodesFresh, on)
                    /\ ReadFailed(h)) => h.err

\* The message names the word.
Names(text, word) == \E k \in 1..Len(text) : text[k] = word

\* The step needs a write for index j: its list holds no match for it, or a
\* first match whose range is not the pod CIDR.
NeedsWrite(d, j) ==
    \/ MatchesIn(d.list, Head(worker.todo).id, j) = {}
    \/ d.list[FirstMatch(d.list, Head(worker.todo).id, j)].range
           # worker.cidrs[j + 1]

\* C29. Per-CIDR failures short-circuit within a network: a call of
\* reconcileNodeInNetwork makes one list call and decides every index on that
\* list (an update targets the list's first match, a create finds none in
\* it); a failed write for index i is the last call of the step, so that no
\* index after i is written, and the error returned names podCIDRs[i], i and
\* the network.
C29_ShortCircuit ==
    \A d \in WorkerDids :
        /\ d.read.what = "egress"
        /\ d.read.net = Head(worker.todo).network
        /\ \A k \in 1..Len(d.calls) :
               LET c == d.calls[k]
               IN  /\ c.op = "create" =>
                          MatchesIn(d.list, Head(worker.todo).id, c.index) = {}
                   /\ c.op = "update" =>
                          /\ MatchesIn(d.list, Head(worker.todo).id, c.index) # {}
                          /\ c.target = d.list[FirstMatch(d.list,
                                                   Head(worker.todo).id, c.index)]
                   /\ c.out # "ok" =>
                          /\ k = Len(d.calls)
                          /\ \A j \in (c.index + 1)..(Len(worker.cidrs) - 1) :
                                 CallsAt(d, j) = <<>>
                          /\ d.err
                          /\ Names(d.text, worker.cidrs[c.index + 1])
                          /\ Names(d.text, Digits[c.index + 1])
                          /\ Names(d.text, Head(worker.todo).network)

\* The worker is about to reconcile two pod CIDRs that both need a write, and
\* the write for the first fails: the second is not written.
C29_Witness ==
    /\ worker.pc = "nodes"
    /\ Len(worker.cidrs) = 2
    /\ \E d \in WorkerDids :
           /\ ~d.read.err
           /\ NeedsWrite(d, 0)
           /\ NeedsWrite(d, 1)
           /\ Len(d.calls) = 1
           /\ d.calls[1].index = 0
           /\ d.calls[1].out # "ok"
           /\ d.err

\* The rules of a step's list that qualify for (mesh node, i) after the first.
LaterMatches(d, i) ==
    { d.list[k] : k \in MatchesIn(d.list, Head(worker.todo).id, i)
                          \ {FirstMatch(d.list, Head(worker.todo).id, i)} }

\* The rule the mesh held under id before the step is held as it was after it.
HeldAsItWas(d, id) ==
    \A k \in 1..Len(egress) :
        egress[k].id = id =>
            \E j \in 1..Len(d.egress) : d.egress[j] = egress[k]

\* C30. Match and tie-breaking: the rule reconcilePodCIDR works on for
\* (mesh node, i) is the first rule of the list, in list order, whose
\* description parses as managed, that passes the ownership filter, whose parsed
\* index is i and whose nodes map holds the mesh node; when several rules
\* qualify, the update (if any) goes to the first, and the others are the
\* target of no call of the step and are held by the mesh as they were.
C30_FirstMatchWins ==
    \A d \in WorkerDids, i \in 0..(Len(worker.cidrs) - 1) :
        MatchesIn(d.list, Head(worker.todo).id, i) # {} =>
            LET first == d.list[FirstMatch(d.list, Head(worker.todo).id, i)]
            IN  /\ Metadata(first.description).managed
                /\ \A c \in CallsOf(d) :
                       c.index = i =>
                           /\ c.op = "update"
                           /\ c.target = first
                           /\ c.req.id = first.id
                /\ \A r \in LaterMatches(d, i) :
                       /\ \A c \in CallsOf(d) :
                              c.target.id # r.id /\ c.req.id # r.id
                       /\ HeldAsItWas(d, r.id)

\* The worker is about to update the first of two rules that qualify for the
\* same mesh node and index, and the mesh takes the update: the second keeps
\* its range.
C30_Witness ==
    /\ worker.pc = "nodes"
    /\ \E d \in WorkerDids, i \in 0..(Len(worker.cidrs) - 1) :
           /\ Cardinality(MatchesIn(d.list, Head(worker.todo).id, i)) >= 2
           /\ Len(CallsAt(d, i)) = 1
           /\ CallsAt(d, i)[1].out = "ok"
           /\ \E r \in LaterMatches(d, i) :
                  /\ r.range # worker.cidrs[i + 1]
                  /\ \E j \in 1..Len(d.egress) : d.egress[j] = r

\* The step the worker takes is the one the outcomes ol and outs give.
WorkerTook(ol, outs) ==
    /\ WorkerNode(ol)
    /\ OutsDrawn(outs, WorkerStep(ol, outs).calls)
    /\ faults' = faults + Failed(<<ol>>, outs)
    /\ egress' = WorkerStep(ol, outs).egress
    /\ egressCache' = WorkerStep(ol, outs).ecache

\* C21. Errors across networks are accumulated, not fatal: when
\* reconcileNodeInNetwork has run for one mesh node of the host, ReconcileNode
\* goes on with the host's next mesh node whether or not it failed, and adds
\* the network to its list of failed networks exactly when it failed; after the
\* last mesh node it returns an error (the key is queued again) exactly when
\* that list holds a network, and nil otherwise.
C21_ErrorsAccumulated ==
    [][ \A ol \in ReadOuts, outs \in WorkerOuts :
            WorkerTook(ol, outs) =>
                LET d    == WorkerStep(ol, outs)
                    errs == IF d.err
                            THEN worker.errs \cup {Head(worker.todo).network}
                            ELSE worker.errs
                IN  /\ Len(worker.todo) > 1 =>
                           /\ worker'.pc = "nodes"
                           /\ worker'.todo = Tail(worker.todo)
                           /\ worker'.errs = errs
                           /\ queue' = queue
                    /\ Len(worker.todo) = 1 =>
                           /\ worker'.pc = "idle"
                           /\ errs # {} =>
                                  /\ worker.key \in queue'
                                  /\ settled'[worker.key] = NoNode
                           /\ errs = {} =>
                                  /\ queue' = queue
                                  /\ settled'[worker.key] = worker.cidrs ]_vars

\* ReconcileNode has failed in net1 and is about to reconcile the host's mesh
\* node in net2, where it can write without an error.
C21_Witness ==
    /\ worker.pc = "nodes"
    /\ worker.errs = {"net1"}
    /\ Head(worker.todo).network = "net2"
    /\ \E d \in WorkerDids : ~d.err /\ Len(d.calls) > 0

\* The rules a call of deleteNodeFromNetwork targets, in the order of its calls.
TargetsOf(d) == [k \in 1..Len(d.calls) |-> d.calls[k].target]

\* The rules of a list that are owned and hold the mesh node uuid, in list
\* order.
OwnedHolding(list, uuid) ==
    SelectSeq(list, LAMBDA r : Owned(r, clusterName) /\ uuid \in DOMAIN r.nodes)

\* The mesh nodes of the host of that name, in the order of the nodes list.
HostMeshNodes(name) ==
    SelectSeq(meshNodes,
              LAMBDA m : \E j \in 1..Len(meshHosts[HostIndex(meshHosts, name)].nodes) :
                             meshHosts[HostIndex(meshHosts, name)].nodes[j] = m.id)

\* What a call of deleteNodeFromNetwork for the mesh node uuid of a network
\* does: one list call for that network; if it fails, no delete; otherwise one
\* DeleteEgress for each rule of the list that is owned and holds uuid, in list
\* order, whatever the outcome of the deletes before, and for no other rule;
\* an error exactly when the list call or a delete failed; and every rule it
\* does not target is held by the mesh as it was.
DeletesExactly(d, uuid, network) ==
    /\ d.read.what = "egress"
    /\ d.read.net = network
    /\ d.read.err => d.calls = <<>>
    /\ ~d.read.err => TargetsOf(d) = OwnedHolding(d.list, uuid)
    /\ \A c \in CallsOf(d) : c.op = "delete" /\ c.target.network = network
    /\ d.err <=> (d.read.err \/ \E c \in CallsOf(d) : c.out # "ok")
    /\ \A k \in 1..Len(egress) :
           (\A c \in CallsOf(d) : c.target.id # egress[k].id) =>
               \E j \in 1..Len(d.egress) : d.egress[j] = egress[k]

\* C22. DeleteNode(name), when a host of that name exists and the hosts and the
\* nodes are listed, visits every mesh node of the host; for each it issues
\* DeleteEgress for every rule of that mesh node's network list that is owned
\* and holds the mesh node's UUID, and for no other rule; a delete that fails
\* does not stop the deletes after it, a network that fails does not stop the
\* networks after it, and DeleteNode carries an error from the first failure
\* on.
C22_DeleteNodeExact ==
    /\ [](\A d \in DeleterDids :
              DeletesExactly(d, Head(deleter.todo).id, Head(deleter.todo).network))
    /\ [][ /\ \A oh \in ReadOuts, on \in ReadOuts :
                  ( /\ DeleteNodeStart(oh, on)
                    /\ HostIndex(meshHosts, deleter.name) # 0
                    /\ faults' = faults )
                      => /\ deleter'.todo = HostMeshNodes(deleter.name)
                         /\ deleter'.pc = "nodes"
            /\ \A ol \in ReadOuts :
                  (DeleteNodeStep(ol) /\ Len(deleter.todo) > 1)
                      => /\ deleter'.pc = "nodes"
                         /\ deleter'.todo = Tail(deleter.todo)
                         /\ deleter'.err = (deleter.err \/ faults' > faults) ]_vars

\* DeleteNode has failed to delete the first of the two rules of u1 in net1 and
\* has deleted the second; it carries the error and is about to delete the rule
\* of u2 in net2.
C22_Witness ==
    /\ deleter.pc = "nodes"
    /\ deleter.err
    /\ Head(deleter.todo).network = "net2"
    /\ \E k \in 1..Len(egress) : egress[k].id = 2
    /\ \A k \in 1..Len(egress) : egress[k].id # 3
    /\ \E d \in DeleterDids :
           /\ ~d.err
           /\ Len(d.calls) = 1
           /\ \A k \in 1..Len(d.egress) : d.egress[k].network # "net2"

\* The orphan the cleanup pass handles in the step d.
OrphanOf(d) == cleaner.todo[FirstOf(cleaner.todo, d.read.net)]

\* C23. CleanupOrphanedEgresses(validNodeIds) takes for orphans exactly the
\* mesh nodes of the nodes list that are not in validNodeIds; for each orphan it
\* issues DeleteEgress for exactly the rules of the list of the orphan's
\* network that are owned and hold the orphan's UUID. An owned rule all of
\* whose nodes-map keys are in validNodeIds, and a rule that is not owned, is
\* the target of no delete and is held by the mesh as it was.
C23_CleanupExact ==
    /\ [](cleaner.pc = "sweep" =>
              /\ \A k \in 1..Len(cleaner.todo) :
                     /\ cleaner.todo[k].id \notin cleaner.valid
                     /\ \E j \in 1..Len(meshNodes) : meshNodes[j] = cleaner.todo[k]
              /\ \A d \in CleanerDids :
                     /\ DeletesExactly(d, OrphanOf(d).id, OrphanOf(d).network)
                     /\ \A c \in CallsOf(d) :
                            /\ Owned(c.target, clusterName)
                            /\ \E u \in DOMAIN c.target.nodes : u \notin cleaner.valid
                     /\ \A k \in 1..Len(egress) :
                            ( \/ ~Owned(egress[k], clusterName)
                              \/ DOMAIN egress[k].nodes \subseteq cleaner.valid )
                                => \E j \in 1..Len(d.egress) : d.egress[j] = egress[k])
    /\ [][ \A oh \in ReadOuts, on \in ReadOuts :
                (CleanupCollect(oh, on) /\ faults' = faults) =>
                    LET valid   == ValidNodeIDs(meshHosts)
                        orphans == SelectSeq(meshNodes, LAMBDA m : m.id \notin valid)
                    IN  IF orphans = <<>> THEN cleaner'.pc = "idle"
                        ELSE /\ cleaner'.pc = "sweep"
                             /\ cleaner'.valid = valid
                             /\ cleaner'.todo = orphans ]_vars

\* The pass holds u1 and u2 for valid and is about to delete the one owned rule
\* of the orphan u3 in net1: the rules of u1 and u2, the rule of net2 that holds
\* u3 and the rule that is not managed stay.
C23_Witness ==
    /\ cleaner.pc = "sweep"
    /\ cleaner.valid = {"u1", "u2"}
    /\ \E d \in CleanerDids :
           /\ ~d.err
           /\ Len(d.calls) = 1
           /\ d.calls[1].target.id = 4
           /\ { d.egress[k].id : k \in 1..Len(d.egress) } = {1, 2, 3, 5}

(***************************************************************************)
(* The process: main, the leader election, Controller.Run and its          *)
(* goroutines. The mesh is left out: a reconciliation, a DeleteNode call   *)
(* and a cleanup pass are in flight from their call to their return.       *)
(***************************************************************************)

\* The ctx that Run was given is cancelled: by SIGINT or SIGTERM, or, under a
\* leader election, because the elector's renew loop returned.
CtxDone == proc.signal \/ proc.lost

\* An Add that a queue that is shut down still takes: C36 does not hold of it.
wqAddWhileShut(q, key) ==
    IF key \in q.dirty THEN q
    ELSE IF key \in q.processing THEN [q EXCEPT !.dirty = @ \cup {key}]
    ELSE [q EXCEPT !.dirty = @ \cup {key}, !.queue = Append(@, key)]

\* An Add that queues a key whether or not it is being processed: C26 does not
\* hold of it.
wqAddQueued(q, key) ==
    IF q.shut \/ key \in q.dirty THEN q
    ELSE [q EXCEPT !.dirty = @ \cup {key}, !.queue = Append(@, key)]

\* The typed workqueue of client-go, as Controller calls it. Add: a key that is
\* dirty is not added again, a key that is being processed is marked dirty and
\* queued by Done.
wqAdd(q, key) ==
    IF q.shut \/ key \in q.dirty THEN q
    ELSE IF key \in q.processing THEN [q EXCEPT !.dirty = @ \cup {key}]
    ELSE [q EXCEPT !.dirty = @ \cup {key}, !.queue = Append(@, key)]

\* A Get that does not mark the key as being processed: C27 as amended does
\* not hold of it.
wqGetUnmarked(q) ==
    [q EXCEPT !.queue = Tail(@), !.dirty = @ \ {Head(q.queue)}]

\* Get: the head of the queue is being processed and is dirty no more.
wqGet(q) ==
    [q EXCEPT !.queue = Tail(@), !.processing = @ \cup {Head(q.queue)},
              !.dirty = @ \ {Head(q.queue)}]

\* Done: the key is processed; if it was added meanwhile it is queued now.
wqDone(q, key) ==
    IF key \in q.dirty
    THEN [q EXCEPT !.processing = @ \ {key}, !.queue = Append(@, key)]
    ELSE [q EXCEPT !.processing = @ \ {key}]

\* A worker that drops the key whose syncHandler failed: C32 does not hold of
\* it.
wqDropFailed(q, key) == q

\* AddRateLimited: the key is added after the limiter's delay.
wqAddRateLimited(q, key) ==
    IF q.shut THEN q ELSE [q EXCEPT !.waiting = @ \cup {key}]

\* A runWithLeaderElection that calls Run beside the election: C25 does not
\* hold of it.
runWithLeaderElectionRunning(r) == [r EXCEPT !.pc = "syncing"]

\* runWithLeaderElection: the election starts, and Run waits for
\* OnStartedLeading.
runWithLeaderElection(r) == r

\* runWithoutLeaderElection: Run is called at once; it starts the informer.
runWithoutLeaderElection(r) == [r EXCEPT !.pc = "syncing"]

\* A Run that starts its workers as soon as the informer has synced, with the
\* initial cleanup still to run: C24 does not hold of it.
WaitForCacheSyncThenWorkers(r) ==
    [r EXCEPT !.pc = "started", !.workers = proc.workerCount]

\* Run after WaitForCacheSync returned true: the initial cleanup.
WaitForCacheSync(r) == [r EXCEPT !.pc = "cleanup"]

\* The mesh nodes a pass takes for orphans belong to the keys the informer's
\* store does not hold.
OrphanKeys == CtlKeys \ nodeInformer.store

\* The process ends with an exit code; its goroutines end with it.
Exit(code) ==
    /\ proc' = [proc EXCEPT !.pc = "exited", !.code = code,
                            !.lease = IF proc.lease = "self" /\ ~proc.lost
                                      THEN "none" ELSE @]
    /\ workers' = [w \in Workers |-> NoWork]
    /\ nodeInformer' = [nodeInformer EXCEPT !.deleting = ""]
    /\ sweep' = NoSweep

\* main, from the signal context on.
Main ==
    /\ proc.pc = "main"
    /\ proc' = [proc EXCEPT !.pc = IF proc.le THEN "electing" ELSE "direct"]
    /\ run' = IF proc.le THEN runWithLeaderElection(run)
              ELSE runWithoutLeaderElection(run)
    /\ UNCHANGED <<event, libVars, engineVars, egress, hostsCache, nodesCache,
                   egressCache, wq, workers, nodeInformer, sweep>>

\* SIGINT or SIGTERM: the context of main is cancelled.
Signal ==
    /\ proc.pc \in {"electing", "leading", "direct"}
    /\ ~proc.signal
    /\ proc' = [proc EXCEPT !.signal = TRUE]
    /\ UNCHANGED <<event, libVars, engineVars, egress, hostsCache, nodesCache,
                   egressCache, run, wq, workers, nodeInformer, sweep>>

\* Another replica takes the lease that nobody holds, or that this replica no
\* longer renews, or gives it up.
OtherReplica(l) ==
    /\ proc.le
    /\ proc.pc # "exited"
    /\ \/ l = "other" /\ (proc.lease = "none" \/ (proc.lease = "self" /\ proc.lost))
       \/ l = "none" /\ proc.lease = "other"
    /\ proc' = [proc EXCEPT !.lease = l]
    /\ UNCHANGED <<event, libVars, engineVars, egress, hostsCache, nodesCache,
                   egressCache, run, wq, workers, nodeInformer, sweep>>

\* The elector acquires the lease: OnStartedLeading calls Run in a goroutine
\* of its own.
Acquire ==
    /\ proc.pc = "electing"
    /\ ~proc.signal
    /\ proc.lease = "none"
    /\ proc' = [proc EXCEPT !.pc = "leading", !.lease = "self"]
    /\ run' = [run EXCEPT !.pc = "syncing"]
    /\ UNCHANGED <<event, libVars, engineVars, egress, hostsCache, nodesCache,
                   egressCache, wq, workers, nodeInformer, sweep>>

\* The lease is not renewed within RenewDeadline: the renew loop returns and
\* the elector cancels the context of OnStartedLeading.
RenewFails ==
    /\ proc.pc = "leading"
    /\ ~CtxDone
    /\ proc' = [proc EXCEPT !.lost = TRUE]
    /\ UNCHANGED <<event, libVars, engineVars, egress, hostsCache, nodesCache,
                   egressCache, run, wq, workers, nodeInformer, sweep>>

\* The elector's Run returns, with the lease lost or the context cancelled:
\* OnStoppedLeading, os.Exit(0).
OnStoppedLeading ==
    /\ proc.pc \in {"electing", "leading"}
    /\ CtxDone
    /\ Exit(0)
    /\ UNCHANGED <<event, libVars, engineVars, egress, hostsCache, nodesCache,
                   egressCache, run, wq>>

\* Run returns on the cancelled context: with an error while it waits for the
\* sync, which is fatal; with nil after the workers were started, and main
\* returns when there is no election. The deferred ShutDown comes first.
RunReturns ==
    /\ proc.pc \in {"leading", "direct"}
    /\ run.pc \in {"syncing", "started"}
    /\ CtxDone
    /\ run' = [run EXCEPT !.pc = "returned"]
    /\ wq' = [wq EXCEPT !.shut = TRUE]
    /\ IF run.pc = "syncing" THEN Exit(1)
       ELSE IF proc.pc = "direct" THEN Exit(0)
       ELSE UNCHANGED <<proc, workers, nodeInformer, sweep>>
    /\ UNCHANGED <<event, libVars, engineVars, egress, hostsCache, nodesCache,
                   egressCache>>

\* The informer runs from the start of Run until the context is cancelled; it
\* calls its handlers one after the other.
InformerRuns ==
    /\ proc.pc \in {"leading", "direct"}
    /\ run.pc \in {"syncing", "cleanup", "started"}
    /\ ~CtxDone
    /\ nodeInformer.deleting = ""

\* handleNodeAdd, and handleNodeUpdate of a node whose podCIDRs changed.
InformerAdd(key) ==
    /\ InformerRuns
    /\ nodeInformer' = [nodeInformer EXCEPT !.store = @ \cup {key}]
    /\ wq' = wqAdd(wq, key)
    /\ UNCHANGED <<event, libVars, engineVars, egress, hostsCache, nodesCache,
                   egressCache, proc, run, workers, sweep>>

\* handleNodeDelete: DeleteNode is called in the handler, on a context of its
\* own.
InformerDelete(key) ==
    /\ InformerRuns
    /\ key \in nodeInformer.store
    /\ nodeInformer' = [store |-> nodeInformer.store \ {key}, deleting |-> key]
    /\ UNCHANGED <<event, libVars, engineVars, egress, hostsCache, nodesCache,
                   egressCache, proc, run, wq, workers, sweep>>

DeleteNodeReturns ==
    /\ proc.pc # "exited"
    /\ nodeInformer.deleting # ""
    /\ nodeInformer' = [nodeInformer EXCEPT !.deleting = ""]
    /\ UNCHANGED <<event, libVars, engineVars, egress, hostsCache, nodesCache,
                   egressCache, proc, run, wq, workers, sweep>>

\* The informer has synced: Run goes on to the initial cleanup.
\* WaitForCacheSync returns true only if the caches have synced before the
\* context is cancelled.
Synced ==
    /\ proc.pc \in {"leading", "direct"}
    /\ run.pc = "syncing"
    /\ ~CtxDone
    /\ run' = WaitForCacheSync(run)
    /\ sweep' = [pc |-> "initial", orphans |-> OrphanKeys]
    /\ UNCHANGED <<event, libVars, engineVars, egress, hostsCache, nodesCache,
                   egressCache, proc, wq, workers, nodeInformer>>

\* The initial cleanup returns, with an error or without: Run starts the
\* workers and the periodic cleanup. wait.UntilWithContext does not call its
\* function when the context is cancelled already.
CleanupReturns ==
    /\ proc.pc # "exited"
    /\ sweep.pc = "initial"
    /\ sweep' = NoSweep
    /\ run' = [run EXCEPT !.pc = "started",
                          !.workers = IF CtxDone THEN 0 ELSE proc.workerCount]
    /\ UNCHANGED <<event, libVars, engineVars, egress, hostsCache, nodesCache,
                   egressCache, proc, wq, workers, nodeInformer>>

\* periodicCleanup: at once when it is started, then every ResyncPeriod.
PeriodicCleanup ==
    /\ proc.pc # "exited"
    /\ run.pc = "started"
    /\ run.workers > 0
    /\ ~CtxDone
    /\ sweep.pc = "idle"
    /\ sweep' = [pc |-> "periodic", orphans |-> OrphanKeys]
    /\ UNCHANGED <<event, libVars, engineVars, egress, hostsCache, nodesCache,
                   egressCache, proc, run, wq, workers, nodeInformer>>

PeriodicReturns ==
    /\ proc.pc # "exited"
    /\ sweep.pc = "periodic"
    /\ sweep' = NoSweep
    /\ UNCHANGED <<event, libVars, engineVars, egress, hostsCache, nodesCache,
                   egressCache, proc, run, wq, workers, nodeInformer>>

\* processNextWorkItem: Get, then syncHandler looks the key up in the store and
\* calls ReconcileNode if the node is there.
Get(w) ==
    /\ proc.pc # "exited"
    /\ w <= run.workers
    /\ workers[w].pc = "idle"
    /\ wq.queue # <<>>
    /\ wq' = wqGet(wq)
    /\ workers' = [workers EXCEPT ![w] =
                      [pc |-> "sync", key |-> Head(wq.queue),
                       reconciling |-> Head(wq.queue) \in nodeInformer.store]]
    /\ UNCHANGED <<event, libVars, engineVars, egress, hostsCache, nodesCache,
                   egressCache, proc, run, nodeInformer, sweep>>

\* syncHandler returns: AddRateLimited on an error, Forget otherwise, then the
\* deferred Done.
SyncReturns(w, err) ==
    /\ proc.pc # "exited"
    /\ workers[w].pc = "sync"
    /\ err => workers[w].reconciling
    /\ wq' = wqDone(IF err THEN wqAddRateLimited(wq, workers[w].key) ELSE wq,
                    workers[w].key)
    /\ workers' = [workers EXCEPT ![w] = NoWork]
    /\ UNCHANGED <<event, libVars, engineVars, egress, hostsCache, nodesCache,
                   egressCache, proc, run, nodeInformer, sweep>>

\* The limiter's delay is over: the key is added.
DelayedAdd(key) ==
    /\ proc.pc # "exited"
    /\ key \in wq.waiting
    /\ wq' = wqAdd([wq EXCEPT !.waiting = @ \ {key}], key)
    /\ UNCHANGED <<event, libVars, engineVars, egress, hostsCache, nodesCache,
                   egressCache, proc, run, workers, nodeInformer, sweep>>

\* A replica after its controller was constructed: with or without leader
\* election, with one worker or more, the lease free or held by another
\* replica.
ControllerInit ==
    /\ LibIdle
    /\ clusterName = <<"a">>
    /\ meshHosts = Hosts
    /\ meshNodes = MeshNodes
    /\ informer = [n \in K8sNames |-> NoNode]
    /\ queue = {}
    /\ egress = InitialEgress
    /\ hostsCache = [data |-> <<>>, age |-> TTL]
    /\ nodesCache = [data |-> <<>>, age |-> TTL]
    /\ egressCache = [n \in Networks |-> NoEntry]
    /\ phase = "initial"
    /\ worker = IdleWorker
    /\ cleaner = IdleCleaner
    /\ deleter = IdleDeleter
    /\ faults = 0
    /\ pass = NoPass
    /\ settled = Unsettled
    /\ proc \in { [pc |-> "main", le |-> le, lease |-> IF le THEN l ELSE "none",
                   signal |-> FALSE, lost |-> FALSE, code |-> -1,
                   workerCount |-> n] :
                  le \in BOOLEAN, l \in {"none", "other"}, n \in Workers }
    /\ run = [pc |-> "none", workers |-> 0]
    /\ wq = IdleQueue
    /\ workers = [w \in Workers |-> NoWork]
    /\ nodeInformer = [store |-> {}, deleting |-> ""]
    /\ sweep = NoSweep
    /\ event = NoEvent

ControllerNext ==
    \/ Main
    \/ Signal
    \/ \E l \in {"none", "other"} : OtherReplica(l)
    \/ Acquire
    \/ RenewFails
    \/ OnStoppedLeading
    \/ RunReturns
    \/ \E key \in CtlKeys : InformerAdd(key)
    \/ \E key \in CtlKeys : InformerDelete(key)
    \/ DeleteNodeReturns
    \/ Synced
    \/ CleanupReturns
    \/ PeriodicCleanup
    \/ PeriodicReturns
    \/ \E w \in Workers : Get(w)
    \/ \E w \in Workers, err \in BOOLEAN : SyncReturns(w, err)
    \/ \E key \in CtlKeys : DelayedAdd(key)

ControllerSpec == ControllerInit /\ [][ControllerNext]_vars

\* The type of the process's variables.
CtlTypeOK ==
    /\ proc.pc \in {"main", "electing", "leading", "direct", "exited"}
    /\ proc.code \in {-1, 0, 1}
    /\ (proc.code = -1) <=> (proc.pc # "exited")
    /\ run.pc \in {"none", "syncing", "cleanup", "started", "returned"}
    /\ run.workers \in 0..MaxWorkers
    /\ wq.dirty \subseteq CtlKeys /\ wq.processing \subseteq CtlKeys
    /\ \A i \in 1..Len(wq.queue) : wq.queue[i] \in wq.dirty
    /\ sweep.pc \in {"idle", "initial", "periodic"}

\* The steps of Run in their order: the informer's sync, the initial cleanup,
\* the workers and the periodic cleanup, the return.
RunOrder ==
    { <<"none", "syncing">>, <<"syncing", "cleanup">>, <<"syncing", "returned">>,
      <<"cleanup", "started">>, <<"started", "returned">> }

\* Where Run is, what runs beside it.
RunPhases ==
    /\ run.pc \in {"none", "syncing"} => sweep.pc = "idle" /\ run.workers = 0
    /\ (run.pc = "cleanup") <=> (sweep.pc = "initial")
    /\ sweep.pc = "initial" => run.workers = 0
    /\ sweep.pc = "periodic" => run.pc \in {"started", "returned"}
    /\ run.workers \in {0, proc.workerCount}
    /\ \A w \in Workers :
          workers[w].pc # "idle" =>
              /\ run.pc \in {"started", "returned"}
              /\ sweep.pc # "initial"
              /\ w <= proc.workerCount

C26_OneInFlightPerKey ==
    \A w1 \in Workers, w2 \in Workers :
        (w1 # w2 /\ workers[w1].pc = "sync" /\ workers[w2].pc = "sync")
            => workers[w1].key # workers[w2].key

\* A worker reconciles a key that has been added again meanwhile, and another
\* worker waits in Get.
C26_Witness ==
    \E w1 \in Workers, w2 \in Workers :
        /\ w1 # w2
        /\ w1 <= run.workers /\ w2 <= run.workers
        /\ workers[w1].pc = "sync" /\ workers[w1].reconciling
        /\ workers[w1].key \in wq.dirty
        /\ workers[w2].pc = "idle"
        /\ ~wq.shut

\* The activities in flight that write rules of a K8s node: a worker's
\* ReconcileNode of the node, the handler's DeleteNode of the node, a cleanup
\* pass that took the node's mesh nodes for orphans.
Activities(key) ==
    { [kind |-> "ReconcileNode", by |-> w] :
        w \in { v \in Workers : /\ workers[v].pc = "sync"
                                /\ workers[v].reconciling
                                /\ workers[v].key = key } }
    \cup (IF nodeInformer.deleting = key
          THEN {[kind |-> "DeleteNode", by |-> 0]} ELSE {})
    \cup (IF sweep.pc # "idle" /\ key \in sweep.orphans
          THEN {[kind |-> "CleanupOrphanedEgresses", by |-> 0]} ELSE {})

\* C27 as the claim states it: no two activities that concern the same K8s
\* node are in flight at the same time.
C27_SerializedPerNode ==
    \A key \in CtlKeys :
        \A a \in Activities(key), b \in Activities(key) : a = b

\* C27. The writes of reconciliations are serialized per K8s node: no two
\* activities of the same kind that concern the same K8s node are in flight at
\* the same time; a ReconcileNode, a DeleteNode and a cleanup pass are not
\* serialized with each other.
C27_SerializedPerKind ==
    \A key \in CtlKeys :
        \A a \in Activities(key), b \in Activities(key) :
            a.kind = b.kind => a = b

\* A worker reconciles a node while the handler deletes the rules of the same
\* node, with a second worker waiting in Get.
C27_Witness ==
    \E key \in CtlKeys :
        /\ \E a \in Activities(key) : a.kind = "ReconcileNode"
        /\ \E b \in Activities(key) : b.kind = "DeleteNode"
        /\ run.workers = MaxWorkers
        /\ \E w \in Workers : workers[w].pc = "idle"

\* An activity that writes to the mesh is in flight.
MeshWriter ==
    \/ \E w \in Workers : workers[w].pc = "sync" /\ workers[w].reconciling
    \/ nodeInformer.deleting # ""
    \/ sweep.pc # "idle"

\* C25. With leader election, Run is started only by OnStartedLeading, on the
\* step that acquires the lease, and OnStoppedLeading ends the process: no
\* activity that writes to the mesh is in flight before the replica leads, nor
\* after OnStoppedLeading was called.
C25_WritesOnlyWhileLeading ==
    /\ [](proc.le =>
            /\ proc.pc \in {"main", "electing"} => run.pc = "none"
            /\ (run.pc # "none" \/ MeshWriter) => proc.pc \in {"leading", "exited"}
            /\ proc.pc = "exited" => ~MeshWriter
            /\ MeshWriter => proc.pc = "leading")
    /\ [][proc.le =>
            /\ (run.pc = "none" /\ run'.pc # "none") =>
                  /\ proc.pc = "electing" /\ proc.lease = "none"
                  /\ proc'.pc = "leading" /\ proc'.lease = "self"
            /\ (proc.pc \in {"electing", "leading"} /\ proc'.pc = "exited"
                    /\ proc'.code = 0) => ~MeshWriter' ]_vars

\* The replica waited for the lease while another replica held it, leads now,
\* and a worker reconciles a node.
C25_Witness ==
    /\ proc.le
    /\ proc.pc = "leading"
    /\ proc.lease = "self"
    /\ ~CtxDone
    /\ \E w \in Workers : workers[w].pc = "sync" /\ workers[w].reconciling

\* C28. A shutdown that a signal drives ends the process with exit code zero,
\* and the loss of leadership ends it with an exit code that is not zero.
C28_ExitCodes ==
    proc.pc = "exited" =>
        /\ (proc.signal /\ ~proc.lost) => proc.code = 0
        /\ proc.lost => proc.code # 0

(***************************************************************************)
(* The orphan collector by itself, with and without two hosts of one name  *)
(***************************************************************************)

\* GET /api/hosts with two hosts that carry the name node-a: host names are
\* not unique in the mesh, a host is identified by its id.
SameNameHosts ==
    << [id |-> "h1", name |-> "node-a", nodes |-> <<"u1", "u2">>],
       [id |-> "h2", name |-> "node-a", nodes |-> <<"u3">>] >>

\* The inputs of a pass: the hosts of the mesh and the informer's cache.
CollectorInit ==
    /\ CtlIdle
    /\ LibIdle
    /\ clusterName = <<"a">>
    /\ meshHosts \in {TwoNetHosts, SameNameHosts}
    /\ meshNodes = TwoNetNodes
    /\ informer \in [K8sNames -> PodCIDRLists \cup {NoNode}]
    /\ queue = {}
    /\ egress = TwoNetEgress
    /\ hostsCache = [data |-> <<>>, age |-> TTL]
    /\ nodesCache = [data |-> <<>>, age |-> TTL]
    /\ egressCache = [n \in Networks |-> NoEntry]
    /\ phase = "initial"
    /\ worker = IdleWorker
    /\ cleaner = IdleCleaner
    /\ deleter = IdleDeleter
    /\ faults = 0
    /\ pass = NoPass
    /\ settled = Unsettled

\* The passes of the orphan cleanup, one after the other.
CollectorNext ==
    \/ Tick
    \/ \E oh \in ReadOuts, on \in ReadOuts : CleanupCollect(oh, on)
    \/ \E network \in Networks, ol \in ReadOuts : CleanupNode(network, ol)

CollectorSpec == CollectorInit /\ [][CollectorNext]_vars

\* The K8s nodes of the informer's cache that have pod CIDRs.
WithPodCIDRs == { n \in K8sNames : informer[n] # NoNode /\ Len(informer[n]) > 0 }

\* The mesh nodes of every host of the mesh whose name is in names.
NodesOfHostsNamed(names) ==
    UNION { { meshHosts[h].nodes[k] : k \in 1..Len(meshHosts[h].nodes) } :
            h \in { j \in 1..Len(meshHosts) : meshHosts[j].name \in names } }

\* C31. The validNodeIds of a pass is the union of host.nodes over the hosts of
\* the mesh whose name is the name of a K8s node that the informer holds with
\* pod CIDRs; a node without pod CIDRs or without a host of its name adds
\* nothing.
C31_ValidNodeIds ==
    cleaner.pc = "sweep" => cleaner.valid = NodesOfHostsNamed(WithPodCIDRs)

(***************************************************************************)
(* The controller with its goroutines scheduled                            *)
(***************************************************************************)

\* The limiter's timer fires, a worker that waits in Get is given the head of
\* a queue that is not empty, and a call of syncHandler returns (every mesh
\* call has a timeout).
ControllerFair ==
    /\ \A key \in CtlKeys : WF_vars(DelayedAdd(key))
    /\ \A w \in Workers : WF_vars(Get(w))
    /\ \A w \in Workers : WF_vars(\E err \in BOOLEAN : SyncReturns(w, err))

\* The controller run directly, without leader election.
WorkerLoopInit == ControllerInit /\ ~proc.le

WorkerLoopNext ==
    \/ Main
    \/ Signal
    \/ RunReturns
    \/ \E key \in CtlKeys : InformerAdd(key)
    \/ \E key \in CtlKeys : InformerDelete(key)
    \/ DeleteNodeReturns
    \/ Synced
    \/ CleanupReturns
    \/ PeriodicCleanup
    \/ PeriodicReturns
    \/ \E w \in Workers : Get(w)
    \/ \E w \in Workers, err \in BOOLEAN : SyncReturns(w, err)
    \/ \E key \in CtlKeys : DelayedAdd(key)

WorkerLoopSpec == WorkerLoopInit /\ [][WorkerLoopNext]_vars /\ ControllerFair

\* The process is ending: its context is cancelled, the workqueue is shut
\* down, or it has exited.
Stopping == CtxDone \/ wq.shut \/ proc.pc = "exited"

\* The keys that workers are in syncHandler for.
InSync == { workers[w].key : w \in { v \in Workers : workers[v].pc = "sync" } }

\* C32. A key whose syncHandler returns an error is added again through the
\* rate limiter and, unless the process is ending, is given to syncHandler
\* again; a key whose syncHandler returns nil is not added by the worker; a
\* key that was dequeued is marked done when its syncHandler returns, once;
\* and the worker whose key failed goes on to the next key.
C32_WorkerRetry ==
    /\ [](proc.pc # "exited" => wq.processing = InSync)
    /\ [][\A w \in Workers :
            /\ SyncReturns(w, TRUE) =>
                  /\ wq.shut \/ workers[w].key \in wq'.waiting
                  /\ workers[w].key \notin wq'.processing
                  /\ workers'[w].pc = "idle"
            /\ SyncReturns(w, FALSE) =>
                  /\ wq'.waiting = wq.waiting
                  /\ workers[w].key \notin wq'.processing
                  /\ (\E i \in 1..Len(wq'.queue) : wq'.queue[i] = workers[w].key)
                        <=> (workers[w].key \in wq.dirty)
                  /\ workers'[w].pc = "idle" ]_vars
    /\ \A key \in CtlKeys : (key \in wq.waiting) ~> (key \in InSync \/ Stopping)

\* A key waits for the limiter's delay after its syncHandler failed, while the
\* worker that failed on it is in syncHandler for another key.
C32_Witness ==
    \E w \in Workers, key \in CtlKeys :
        /\ key \in wq.waiting
        /\ workers[w].pc = "sync"
        /\ workers[w].key # key
        /\ run.workers = 1
        /\ ~Stopping

(***************************************************************************)
(* The handlers of the controller, each applied to what the informer and   *)
(* the workqueue can hand it                                               *)
(***************************************************************************)

\* Node.Spec.PodCIDRs as the handlers can see it: up to two CIDRs, in either
\* order, the same one twice included.
HandlerCIDRs ==
    {<<>>} \cup { <<a>> : a \in {"c0", "c1"} }
           \cup { <<a, b>> : a \in {"c0", "c1"}, b \in {"c0", "c1"} }

\* The objects a handler is given or the indexer returns: a Node, an object of
\* another type, and cache.DeletedFinalStateUnknown wrapping either.
NodeObjects ==
    { [type |-> "Node", name |-> n, podCIDRs |-> c, wraps |-> ""] :
        n \in CtlKeys, c \in HandlerCIDRs }

PodObject == [type |-> "Pod", name |-> "p", podCIDRs |-> <<>>, wraps |-> ""]

Tombstone(obj) == [obj EXCEPT !.type = "DeletedFinalStateUnknown", !.wraps = obj.type]

Objects ==
    NodeObjects \cup {PodObject}
        \cup { Tombstone(o) : o \in NodeObjects \cup {PodObject} }

\* The indexer holds no object under the key.
Absent == [type |-> "", name |-> "", podCIDRs |-> <<>>, wraps |-> ""]

\* The keys a worker can be given, as the parts that "/" separates: the name
\* of a node, a key with no name, a key with a namespace, a key with too many
\* parts.
HandlerKeys ==
    { <<n>> : n \in CtlKeys } \cup { <<"">>, <<"ns", "node-a">>, <<"a", "b", "c">> }

\* What a call of a handler did.
Handled(handler, given, enqueued, calls, reported, returned) ==
    [handler |-> handler, given |-> given, enqueued |-> enqueued, calls |-> calls,
     reported |-> reported, returned |-> returned]

handleNodeUpdate(old, new) ==
    IF old.type # "Node" \/ new.type # "Node"
    THEN Handled("update", <<old, new>>, <<>>, <<>>, 1, <<>>)
    ELSE IF ~podCIDRsChanged(old.podCIDRs, new.podCIDRs)
    THEN Handled("update", <<old, new>>, <<>>, <<>>, 0, <<>>)
    ELSE Handled("update", <<old, new>>, <<new.name>>, <<>>, 0, <<>>)

\* The node of a delete event: the object itself or the object a tombstone
\* wraps; Absent when neither is a Node.
DeletedNode(obj) ==
    IF obj.type = "Node" THEN obj
    ELSE IF obj.type = "DeletedFinalStateUnknown" /\ obj.wraps = "Node"
    THEN [obj EXCEPT !.type = "Node", !.wraps = ""]
    ELSE Absent

\* A handler that does not unwrap tombstones and puts the key of a node whose
\* DeleteNode failed on the workqueue: C34 does not hold of it.
handleNodeDeleteRequeuing(obj, err) ==
    IF obj.type # "Node"
    THEN Handled("delete", <<obj>>, <<>>, <<>>, 1, <<>>)
    ELSE Handled("delete", <<obj>>, IF err THEN <<obj.name>> ELSE <<>>,
                 << [op |-> "DeleteNode", name |-> obj.name, failed |-> err] >>,
                 IF err THEN 1 ELSE 0, <<>>)

\* err: DeleteNode returns an error.
handleNodeDelete(obj, err) ==
    IF DeletedNode(obj) = Absent
    THEN Handled("delete", <<obj>>, <<>>, <<>>, 1, <<>>)
    ELSE Handled("delete", <<obj>>, <<>>,
                 << [op |-> "DeleteNode", name |-> DeletedNode(obj).name, failed |-> err] >>,
                 IF err THEN 1 ELSE 0, <<>>)

\* A syncHandler that takes whatever the indexer returns for a Node and keeps
\* the error of ReconcileNode to itself: C35 does not hold of it.
syncHandlerLenient(key, cached, err) ==
    IF cached = Absent
    THEN Handled("sync", <<key, cached>>, <<>>, <<>>, 0, <<>>)
    ELSE Handled("sync", <<key, cached>>, <<>>,
                 << [op |-> "ReconcileNode", name |-> cached.name, failed |-> err] >>,
                 0, <<>>)

\* cached: what GetByKey returns for the key; err: ReconcileNode returns an
\* error.
syncHandler(key, cached, err) ==
    IF Len(key) > 2
    THEN Handled("sync", <<key, cached>>, <<>>, <<>>, 0, <<"invalid resource key: ">> \o key)
    ELSE IF key[Len(key)] = "" \/ cached = Absent
    THEN Handled("sync", <<key, cached>>, <<>>, <<>>, 0, <<>>)
    ELSE IF cached.type # "Node"
    THEN Handled("sync", <<key, cached>>, <<>>, <<>>, 0,
                 <<"expected Node but got ", cached.type>>)
    ELSE Handled("sync", <<key, cached>>, <<>>,
                 << [op |-> "ReconcileNode", name |-> cached.name, failed |-> err] >>,
                 0,
                 IF err THEN <<"failed to reconcile node ", cached.name, ": ", "error of ReconcileNode">>
                 ELSE <<>>)

HandleNodeUpdate(old, new) ==
    /\ event' = handleNodeUpdate(old, new)
    /\ UNCHANGED <<libVars, engineVars, egress, hostsCache, nodesCache,
                   egressCache, proc, run, wq, workers, nodeInformer, sweep>>

HandleNodeDelete(obj, err) ==
    /\ event' = handleNodeDelete(obj, err)
    /\ UNCHANGED <<libVars, engineVars, egress, hostsCache, nodesCache,
                   egressCache, proc, run, wq, workers, nodeInformer, sweep>>

SyncHandler(key, cached, err) ==
    /\ event' = syncHandler(key, cached, err)
    /\ UNCHANGED <<libVars, engineVars, egress, hostsCache, nodesCache,
                   egressCache, proc, run, wq, workers, nodeInformer, sweep>>

HandlerNext ==
    \/ \E old \in NodeObjects \cup {PodObject}, new \in NodeObjects \cup {PodObject} : HandleNodeUpdate(old, new)
    \/ \E obj \in Objects, err \in BOOLEAN : HandleNodeDelete(obj, err)
    \/ \E key \in HandlerKeys, cached \in NodeObjects \cup {PodObject, Absent}, err \in BOOLEAN : SyncHandler(key, cached, err)

HandlerSpec == LibInit /\ [][HandlerNext]_vars

\* C33. An update event enqueues the node's key if and only if the podCIDRs of
\* the old and of the new node differ as sequences (in length, or in the
\* element at some position); an update or a resync with the same podCIDRs
\* enqueues nothing.
C33_UpdateEnqueues ==
    (event.handler = "update" /\ event.given[1].type = "Node"
                              /\ event.given[2].type = "Node")
        => event.enqueued = IF event.given[1].podCIDRs # event.given[2].podCIDRs
                            THEN <<event.given[2].name>> ELSE <<>>

\* An update that swaps the two CIDRs of a node has enqueued its key.
C33_Witness ==
    /\ event.handler = "update"
    /\ event.given[1].podCIDRs = <<"c0", "c1">>
    /\ event.given[2].podCIDRs = <<"c1", "c0">>
    /\ event.enqueued = <<event.given[2].name>>

\* C34. A delete event that carries a Node, or a tombstone that wraps a Node,
\* makes the handler call DeleteNode with the node's name once and put nothing
\* on the workqueue; when the call fails the error is reported, and there is
\* no second call and no key enqueued.
C34_DeleteDirect ==
    (/\ event.handler = "delete"
     /\ \/ event.given[1].type = "Node"
        \/ event.given[1].type = "DeletedFinalStateUnknown" /\ event.given[1].wraps = "Node")
        => /\ Len(event.calls) = 1
           /\ event.calls[1].op = "DeleteNode"
           /\ event.calls[1].name = event.given[1].name
           /\ event.enqueued = <<>>
           /\ event.reported = IF event.calls[1].failed THEN 1 ELSE 0

\* The event carried a tombstone with a Node in it and DeleteNode failed.
C34_Witness ==
    /\ event.handler = "delete"
    /\ event.given[1].type = "DeletedFinalStateUnknown"
    /\ event.given[1].wraps = "Node"
    /\ Len(event.calls) = 1
    /\ event.calls[1].failed
    /\ event.reported = 1

\* The key of the last call of syncHandler names a node.
NamesNode(key) == Len(key) <= 2 /\ key[Len(key)] # ""

\* C35. syncHandler of a key that names a node: when the informer's cache has
\* no object for the key it returns nil and calls nothing; when the cache has
\* a Node it calls ReconcileNode for that node once and returns an error
\* exactly when that call does, the call's error wrapped in it; when the cache
\* has an object of another type it returns an error and calls nothing.
C35_SyncHandler ==
    (event.handler = "sync" /\ NamesNode(event.given[1])) =>
        /\ event.given[2] = Absent =>
              event.returned = <<>> /\ event.calls = <<>>
        /\ event.given[2].type = "Node" =>
              /\ Len(event.calls) = 1
              /\ event.calls[1].op = "ReconcileNode"
              /\ event.calls[1].name = event.given[2].name
              /\ (event.returned # <<>>) <=> event.calls[1].failed
              /\ event.calls[1].failed =>
                    event.returned[Len(event.returned)] = "error of ReconcileNode"
        /\ event.given[2].type \notin {"", "Node"} =>
              event.returned # <<>> /\ event.calls = <<>>
        /\ event.enqueued = <<>>

\* syncHandler found the node in the cache and ReconcileNode failed.
C35_Witness ==
    /\ event.handler = "sync"
    /\ NamesNode(event.given[1])
    /\ event.given[2].type = "Node"
    /\ Len(event.calls) = 1
    /\ event.calls[1].failed
    /\ event.returned # <<>>

(***************************************************************************)
(* The controller until it has stopped, with and without leader election   *)
(***************************************************************************)

ShutdownInit ==
    /\ ControllerInit
    /\ proc.le
    /\ proc.lease = "none"
    /\ proc.workerCount = MaxWorkers

\* The replica by itself: no other replica takes the lease.
ShutdownNext ==
    \/ WorkerLoopNext
    \/ Acquire
    \/ RenewFails
    \/ OnStoppedLeading

\* Run's goroutine is scheduled when its context is cancelled, the initial
\* cleanup and a call of syncHandler return, and a worker that waits in Get is
\* given the head of a queue that is not empty.
ShutdownFair ==
    /\ WF_vars(RunReturns)
    /\ WF_vars(CleanupReturns)
    /\ WF_vars(\E w \in Workers : Get(w))
    /\ WF_vars(\E w \in Workers : \E err \in BOOLEAN : SyncReturns(w, err))

ShutdownSpec == ShutdownInit /\ [][ShutdownNext]_vars /\ ShutdownFair

\* The keys the workqueue still has to hand out.
Pending == wq.dirty \cup wq.processing

\* No worker holds a key and Get has no key for a worker that runs.
WorkersStopped ==
    \A w \in Workers :
        /\ workers[w].pc = "idle"
        /\ w <= run.workers => wq.queue = <<>>

\* C36. After the context is cancelled Run returns and the workqueue is shut
\* down; a queue that is shut down takes no key, so the workers run out of
\* keys and stop; no periodic cleanup pass starts on a cancelled context; and
\* when the context is cancelled while Run waits for the informer's sync, Run
\* returns an error with no worker and no cleanup started.
C36_Termination ==
    /\ [](run.pc = "returned" => wq.shut)
    /\ [][ /\ (CtxDone /\ sweep.pc = "idle") => sweep'.pc = "idle"
           /\ CtxDone => run'.workers <= run.workers
           /\ wq.shut => /\ wq'.shut
                         /\ Pending' \subseteq Pending
                         /\ wq'.dirty \subseteq wq.dirty
           /\ (CtxDone /\ run.pc = "syncing") =>
                 /\ run'.pc \in {"syncing", "returned"}
                 /\ run'.workers = 0
                 /\ sweep'.pc = "idle"
                 /\ \A w \in Workers : workers'[w].pc = "idle"
                 /\ run'.pc = "returned" => proc'.pc = "exited" /\ proc'.code = 1 ]_vars
    /\ (CtxDone /\ run.pc # "none") ~> (run.pc = "returned" \/ proc.pc = "exited")
    /\ wq.shut ~> (proc.pc = "exited" \/ WorkersStopped)

\* Run has returned under a leader election, the workqueue is shut down, and a
\* worker takes the keys that are left.
C36_Witness ==
    /\ proc.pc = "leading"
    /\ run.pc = "returned"
    /\ wq.shut
    /\ wq.queue # <<>>
    /\ \E w \in Workers : workers[w].pc = "sync"

(***************************************************************************)
(* The description codec and the search of reconcilePodCIDR on given input *)
(***************************************************************************)

MarkerPrefix == <<EgressMarker, ":", " ">>

\* The descriptions given to the parser: without the marker, with the marker
\* not at the start or without its separator, the two forms
\* buildEgressDescription writes, and the marker followed by an index that
\* is no number, is empty, is a bare sign, has no "=", is missing, is a number
\* followed by a letter, or is given twice.
CodecDescriptions ==
    { <<"x">>,
      <<" ">> \o MarkerPrefix \o <<"index", "=", "0">>,
      <<EgressMarker, ":", "index", "=", "0">>,
      buildEgressDescription(<<>>, 0),
      buildEgressDescription(<<>>, 1),
      buildEgressDescription(<<"a">>, 1),
      MarkerPrefix \o <<"index", "=", "z">>,
      MarkerPrefix \o <<"index", "=">>,
      MarkerPrefix \o <<"index", "=", "-">>,
      MarkerPrefix \o <<"cluster", "=", "a", " ", "index", "=", "z">>,
      MarkerPrefix \o <<"cluster", "=", "b", " ", "index", "=", "z">>,
      MarkerPrefix \o <<"index">>,
      MarkerPrefix,
      MarkerPrefix \o <<"index", "=", "1", "z">>,
      MarkerPrefix \o <<"index", "=", "1", " ", "index", "=", "z">> }

CodecNodeIDs == {"u1", "u2"}

\* The rules of a list given to the search: a description and a nodes map.
CodecRules ==
    { [id |-> 0, description |-> d, nodes |-> [u \in ids |-> EgressMetric]] :
          d \in CodecDescriptions, ids \in SUBSET CodecNodeIDs }

\* The description begins with the marker prefix, names an index, and no index
\* it names scans as a number.
IndexUnparsed(description) ==
    /\ HasMarkerPrefix(description)
    /\ LET values == IndexValues(Fields(SubSeq(description, 4, Len(description)), <<>>))
       IN  /\ values # <<>>
           /\ \A k \in 1..Len(values) : ~Sscanf(values[k]).ok

\* The lists given to the search: one rule, or a rule with mesh nodes followed
\* by a rule whose index does not scan.
CodecLists ==
    { <<r>> : r \in CodecRules }
        \cup { <<q, r>> : q \in { x \in CodecRules : DOMAIN x.nodes # {} },
                           r \in { x \in CodecRules : IndexUnparsed(x.description) } }

\* One call in each behaviour.
ParseEgressDescription ==
    /\ event = NoEvent
    /\ \E description \in CodecDescriptions :
           event' = Handled("parseEgressDescription", <<description>>, <<>>, <<>>,
                            0, parseEgressDescription(description))
    /\ UNCHANGED <<libVars, engineVars, egress, hostsCache, nodesCache,
                   egressCache, proc, run, wq, workers, nodeInformer, sweep>>

\* The search loop of reconcilePodCIDR on a list, for a cluster name, an index
\* and a mesh node.
ReconcilePodCIDRSearch ==
    /\ event = NoEvent
    /\ \E existingEgresses \in CodecLists, cn \in ClusterNames,
          index \in 0..1, nodeID \in CodecNodeIDs :
           event' = Handled("reconcilePodCIDR",
                            <<existingEgresses, cn, index, nodeID>>, <<>>, <<>>,
                            0, FindMatch(existingEgresses, cn, index, nodeID))
    /\ UNCHANGED <<libVars, engineVars, egress, hostsCache, nodesCache,
                   egressCache, proc, run, wq, workers, nodeInformer, sweep>>

CodecNext ==
    \/ ParseEgressDescription
    \/ ReconcilePodCIDRSearch

CodecSpec == LibInit /\ [][CodecNext]_vars

\* The parser's verdict on a description: managed with index 0 when the index
\* does not scan, not managed when the marker prefix is missing.
ParsedAsClaimed ==
    event.handler = "parseEgressDescription" =>
        LET description == event.given[1]
        IN  /\ IndexUnparsed(description) =>
                  /\ event.returned.managed
                  /\ event.returned.index = 0
            /\ ~HasMarkerPrefix(description) => ~event.returned.managed

\* The search takes the k-th rule of the list when its index does not scan,
\* its nodes map holds the mesh node and no rule before it matches; owned
\* tells whether the rule has also to pass the ownership filter.
SearchTakesUnparsed(owned) ==
    event.handler = "reconcilePodCIDR" =>
        LET existingEgresses == event.given[1]
            cn == event.given[2]
            index == event.given[3]
            nodeID == event.given[4]
        IN  \A k \in 1..Len(existingEgresses) :
                ( /\ IndexUnparsed(existingEgresses[k].description)
                  /\ nodeID \in DOMAIN existingEgresses[k].nodes
                  /\ index = 0
                  /\ owned => Owned(existingEgresses[k], cn)
                  /\ \A j \in 1..(k - 1) :
                         ~IsMatch(existingEgresses[j], cn, index, nodeID) )
                => event.returned = k

\* C37. A description that begins with the marker prefix and whose index value
\* does not parse is managed with index 0, and a description without the
\* marker prefix is not managed; a rule with such a description is the match
\* for index 0 of every mesh node in its nodes map, whatever cluster it names.
C37_UnparsedIndex ==
    /\ ParsedAsClaimed
    /\ SearchTakesUnparsed(FALSE)

\* C37 as amended: the rule is the match for index 0 of every mesh node in its
\* nodes map when it passes the ownership filter of the configured cluster
\* name.
C37_UnparsedIndexOwned ==
    /\ ParsedAsClaimed
    /\ SearchTakesUnparsed(TRUE)

\* The search for index 0 of mesh node u2 has taken the second rule of a list,
\* an owned rule whose index does not scan.
C37_Witness ==
    /\ event.handler = "reconcilePodCIDR"
    /\ event.given[3] = 0
    /\ event.given[4] = "u2"
    /\ event.returned = 2
    /\ IndexUnparsed(event.given[1][2].description)

(***************************************************************************)
(* Read-your-writes through the CachedClient                               *)
(***************************************************************************)

\* C38. When a createEgress, updateEgress or deleteEgress through the cached
\* client returns successfully, neither the cache nor a refetch in flight
\* holds a list of the written network that the mesh gave out before the write
\* took effect, so no later ListEgress returns one: a reader's GET is answered
\* while the reader holds the write lock, and the writer drops the entry under
\* that lock after its request has taken effect.
C38_ReadYourWrites ==
    /\ [](\A d \in Callers : callers[d].served => callers[d].pc = "fetch" /\ mu = d)
    /\ [][\A c \in Callers :
             WriteInvalidate(c) =>
                 /\ Kept(callers[c].unseen, callers[c].net, egressCache') = {}
                 /\ \A d \in Callers : ~callers'[d].served]_vars

\* A refetch of a network was in flight and had been answered when a write to
\* the network took effect; the refetch has stored its list, and the writer
\* has not yet dropped it.
C38_Witness ==
    \E c \in Callers :
        /\ callers[c].pc = "inval"
        /\ callers[c].unseen = {0}
        /\ done.op = "list" /\ done.how = "fetched" /\ ~done.err
        /\ done.key = callers[c].net
        /\ EgressFresh(callers[c].net)

(***************************************************************************)
(* Failed calls and the cache                                              *)
(***************************************************************************)

OfClusterNode(rule) ==
    \E h \in 1..Len(meshHosts) :
        /\ meshHosts[h].name \in K8sNames
        /\ informer[meshHosts[h].name] # NoNode
        /\ Len(informer[meshHosts[h].name]) > 0
        /\ \E k \in 1..Len(meshHosts[h].nodes) :
               meshHosts[h].nodes[k] \in DOMAIN rule.nodes

\* C39. No step of an orphan-cleanup pass deletes an owned rule that holds a
\* mesh node of a host bound by name to a K8s node the informer's cache holds
\* with pod CIDRs, however the pass interleaves with the worker, the cluster's
\* events and the refreshes of the caches.
C39_CleanupSparesClusterNodes ==
    [][ \A network \in Networks, ol \in ReadOuts :
            CleanupNode(network, ol) =>
                \A k \in 1..Len(egress) :
                    (Owned(egress[k], clusterName) /\ OfClusterNode(egress[k])) =>
                        \E j \in 1..Len(egress') : egress'[j].id = egress[k].id ]_vars

====
